---- MODULE Spec2Model ----
(***************************************************************************)
(* Envelope file storage and delivery: the four file GET routes of         *)
(* filesRoute and handleEnvelopeItemFileRequest, over a small relational   *)
(* store (envelopes, envelope items, recipients, document data) and an     *)
(* object store.                                                           *)
(*                                                                         *)
(* Representation.  Text (tokens, titles, base64 text, object keys) is a   *)
(* sequence: tokens and titles are sequences of one-character strings,     *)
(* document data and file bytes are sequences of byte / ASCII codes.  The  *)
(* JavaScript values undefined, null and '' of a string are all the empty  *)
(* sequence (the code only ever tests them for truthiness); an undefined   *)
(* user id is 0, which is falsy in the code as well.                       *)
(***************************************************************************)
EXTENDS Integers, Sequences, FiniteSets, TLC

VARIABLES envelopes, envelopeItems, objectStore, request, response

\* The upload side: the configured transport, the DocumentData records
\* created by uploads, and the upload in progress.
VARIABLES transport, documentDatas, upload

\* A retrieval between its database query and its read of the storage: what
\* the query returned and the reads made since.
VARIABLES retrieval

\* The request for a presigned upload URL in progress.
VARIABLES presign

\* The audit-log rows of an envelope, in the order asked for, and the
\* queryAuditLogs call in progress.
VARIABLES auditLogs, auditQuery

vars == <<envelopes, envelopeItems, objectStore, request, response,
          transport, documentDatas, upload, retrieval, presign, auditLogs, auditQuery>>

(***************************************************************************)
(* Bounds                                                                  *)
(***************************************************************************)
MaxUserId == 3

(***************************************************************************)
(* Text helpers                                                            *)
(***************************************************************************)
startsWith(s, prefix) ==
    /\ Len(s) >= Len(prefix)
    /\ SubSeq(s, 1, Len(prefix)) = prefix

endsWith(s, suffix) ==
    /\ Len(s) >= Len(suffix)
    /\ SubSeq(s, Len(s) - Len(suffix) + 1, Len(s)) = suffix

QR_PREFIX == <<"q", "r", "_">>

DOT_PDF == <<".", "p", "d", "f">>

(***************************************************************************)
(* base64 (RFC 4648, with padding) over byte codes; the text it produces   *)
(* is given as the ASCII codes of its characters.                          *)
(***************************************************************************)
B64Char(i) ==
    IF i < 26 THEN 65 + i
    ELSE IF i < 52 THEN 97 + (i - 26)
    ELSE IF i < 62 THEN 48 + (i - 52)
    ELSE IF i = 62 THEN 43
    ELSE 47

B64Pad == 61

RECURSIVE base64Encode(_)
base64Encode(b) ==
    IF Len(b) = 0 THEN <<>>
    ELSE IF Len(b) = 1 THEN
        <<B64Char(b[1] \div 4), B64Char((b[1] % 4) * 16), B64Pad, B64Pad>>
    ELSE IF Len(b) = 2 THEN
        <<B64Char(b[1] \div 4),
          B64Char((b[1] % 4) * 16 + (b[2] \div 16)),
          B64Char((b[2] % 16) * 4),
          B64Pad>>
    ELSE
        <<B64Char(b[1] \div 4),
          B64Char((b[1] % 4) * 16 + (b[2] \div 16)),
          B64Char((b[2] % 16) * 4 + (b[3] \div 64)),
          B64Char(b[3] % 64)>> \o base64Encode(SubSeq(b, 4, Len(b)))

B64Index(c) ==
    IF c >= 65 /\ c <= 90 THEN c - 65
    ELSE IF c >= 97 /\ c <= 122 THEN c - 97 + 26
    ELSE IF c >= 48 /\ c <= 57 THEN c - 48 + 52
    ELSE IF c = 43 THEN 62
    ELSE IF c = 47 THEN 63
    ELSE -1

DECODE_ERROR == <<-1>>

\* One group of four characters; DECODE_ERROR when it is not canonical base64.
B64Quad(q, isLast) ==
    LET i1 == B64Index(q[1])
        i2 == B64Index(q[2])
        i3 == B64Index(q[3])
        i4 == B64Index(q[4])
    IN  IF i1 < 0 \/ i2 < 0 THEN DECODE_ERROR
        ELSE IF q[3] = B64Pad THEN
            IF isLast /\ q[4] = B64Pad /\ i2 % 16 = 0
            THEN <<i1 * 4 + (i2 \div 16)>>
            ELSE DECODE_ERROR
        ELSE IF i3 < 0 THEN DECODE_ERROR
        ELSE IF q[4] = B64Pad THEN
            IF isLast /\ i3 % 4 = 0
            THEN <<i1 * 4 + (i2 \div 16), (i2 % 16) * 16 + (i3 \div 4)>>
            ELSE DECODE_ERROR
        ELSE IF i4 < 0 THEN DECODE_ERROR
        ELSE <<i1 * 4 + (i2 \div 16), (i2 % 16) * 16 + (i3 \div 4), (i3 % 4) * 64 + i4>>

RECURSIVE base64Decode(_)
base64Decode(s) ==
    IF Len(s) = 0 THEN <<>>
    ELSE IF Len(s) < 4 THEN DECODE_ERROR
    ELSE LET head == B64Quad(SubSeq(s, 1, 4), Len(s) = 4)
             tail == base64Decode(SubSeq(s, 5, Len(s)))
         IN  IF head = DECODE_ERROR \/ tail = DECODE_ERROR
             THEN DECODE_ERROR
             ELSE head \o tail

(***************************************************************************)
(* sha256 is a collision-free digest of the bytes it is given (a string is *)
(* hashed as its UTF-8 bytes, which for ASCII text are its codes); the     *)
(* ETag is the hex text of the digest.                                     *)
(***************************************************************************)
sha256(message) == <<"sha256", message>>

toHex(digest) == <<"hex", digest>>

fingerprint(bytes) == toHex(sha256(bytes))

(***************************************************************************)
(* The relational store and the object store                               *)
(***************************************************************************)
DocumentStatus == {"DRAFT", "PENDING", "COMPLETED", "REJECTED"}

DocumentDataType == {"BYTES_64", "S3_PATH"}

Users == 1 .. MaxUserId

NoUser == 0

\* Team memberships, as getTeamById sees them: user 1 is on team 1, user 2 on
\* team 2, every other user on no team.
TeamMembers == [teamId \in {1, 2} |-> {u \in Users : u = teamId}]

\* An envelope item without a DocumentData record (documentData is null).
NoDocumentData == [type |-> "NONE", data |-> <<>>, initialData |-> <<>>]

\* File contents: the signed and the original bytes of the documents.
SignedBytes1 == <<37, 80, 68, 70, 45>>

OriginalBytes1 == <<37, 80, 68, 70>>

Bytes3 == <<37, 80, 68>>

OriginalBytes2 == <<255, 0>>

\* Object keys, as ASCII text.
KeySigned1 == <<107, 49, 115>>

KeyOriginal1 == <<107, 49, 111>>

KeySigned2 == <<107, 50, 115>>

KeyOriginal2 == <<107, 50, 111>>

\* Recipient and QR tokens.
TokenRecipientA == <<"r", "a">>

TokenRecipientB == <<"r", "b">>

TokenRecipientQrLike == <<"q", "r", "_", "r">>

TokenQrA == <<"q", "r", "_", "a">>

TokenQrUnknown == <<"q", "r", "_", "z">>

TokenUnknown == <<"z", "z">>

TokenLegacyQrB == <<"l", "q">>

TitlePdf == <<"a", ".", "p", "d", "f">>

TitlePlain == <<"b">>

TitleDoublePdf == <<"c", ".", "p", "d", "f", ".", "p", "d", "f">>

TitleOnlyPdf == <<".", "p", "d", "f">>

EnvelopeIds == {"envelope_a", "envelope_b"}

EnvelopeItemIds == {"item_1", "item_2", "item_3", "item_4"}

InlineDocumentData1 ==
    [type |-> "BYTES_64",
     data |-> base64Encode(SignedBytes1),
     initialData |-> base64Encode(OriginalBytes1)]

S3DocumentData1 ==
    [type |-> "S3_PATH", data |-> KeySigned1, initialData |-> KeyOriginal1]

\* The object under KeySigned2 is missing from the object store.
S3DocumentData2 ==
    [type |-> "S3_PATH", data |-> KeySigned2, initialData |-> KeyOriginal2]

\* Not signed yet: data and initialData hold the same text.
InlineDocumentData3 ==
    [type |-> "BYTES_64",
     data |-> base64Encode(Bytes3),
     initialData |-> base64Encode(Bytes3)]

InitialObjectStore ==
    [key \in {KeySigned1, KeyOriginal1, KeyOriginal2} |->
        IF key = KeySigned1 THEN SignedBytes1
        ELSE IF key = KeyOriginal1 THEN OriginalBytes1
        ELSE OriginalBytes2]

(***************************************************************************)
(* Responses                                                               *)
(***************************************************************************)
NoHeaders ==
    [contentType |-> "", etag |-> <<>>, cacheControl |-> "",
     contentDisposition |-> <<>>, pragma |-> "", expires |-> ""]

NoResponse ==
    [status |-> 0, kind |-> "none", error |-> "", body |-> <<>>, headers |-> NoHeaders]

\* c.json({ error }, status)
json(error, status) ==
    [status |-> status, kind |-> "json", error |-> error, body |-> <<>>,
     headers |-> NoHeaders]

\* c.body(null, 304)
bodyNull304 ==
    [status |-> 304, kind |-> "empty", error |-> "", body |-> <<>>, headers |-> NoHeaders]

\* c.body(file), with the headers set before it
bodyFile(file, headers) ==
    [status |-> 200, kind |-> "body", error |-> "", body |-> file, headers |-> headers]

(***************************************************************************)
(* Collaborators of the file routes                                        *)
(***************************************************************************)
FILE_ERROR == <<-2>>

\* getFileServerSide({ type, data }): the bytes behind a document data text,
\* or FILE_ERROR when the read rejects.  storageOk is the outcome of the
\* object-store call of this request.
getFileServerSide(type, data, storageOk) ==
    IF type = "BYTES_64" THEN
        IF base64Decode(data) = DECODE_ERROR THEN FILE_ERROR ELSE base64Decode(data)
    ELSE IF type = "S3_PATH" THEN
        IF storageOk /\ data \in DOMAIN objectStore THEN objectStore[data] ELSE FILE_ERROR
    ELSE FILE_ERROR

\* verifyEmbeddingPresignToken({ token }).catch(() => undefined), then
\* presignToken?.userId: the user of a valid token, NoUser for any other.
verifyEmbeddingPresignToken(token) ==
    IF Len(token) = 2 /\ token[1] = "presign" THEN token[2] ELSE NoUser

\* getTeamById({ userId, teamId }).catch(() => null): TRUE when a team comes
\* back.  teamLookupOk is FALSE when the lookup rejects for another reason
\* than a missing membership.
getTeamById(userId, teamId, teamLookupOk) ==
    /\ teamLookupOk
    /\ teamId \in DOMAIN TeamMembers
    /\ userId \in TeamMembers[teamId]

\* The version parameter of the download routes after validation: it
\* defaults to 'signed'.
parseVersion(version) == IF version = "" THEN "signed" ELSE version

\* contentDisposition(filename)
contentDisposition(filename) == <<"attachment", filename>>

(***************************************************************************)
(* handleEnvelopeItemFileRequest                                           *)
(***************************************************************************)
\* Variant: the current data whatever the version.
documentDataToUse_AlwaysCurrent(documentData, version) == documentData.data

documentDataToUse(documentData, version) ==
    IF version = "signed" THEN documentData.data ELSE documentData.initialData

\* Variant: the hash of the decoded bytes instead of the stored text.
etagOf_DecodedBytes(dataToUse) == toHex(sha256(base64Decode(dataToUse)))

etagOf(dataToUse) == toHex(sha256(dataToUse))

\* Variant: the download flag is not consulted.
notModified_AnyRequest(ifNoneMatch, etag, isDownload) ==
    ifNoneMatch = etag

notModified(ifNoneMatch, etag, isDownload) ==
    ifNoneMatch = etag /\ ~isDownload

\* Variant: the status is not consulted.
cacheControlView_AlwaysImmutable(status) ==
    "public, max-age=31536000, immutable"

cacheControlView(status) ==
    IF status = "COMPLETED"
    THEN "public, max-age=31536000, immutable"
    ELSE "public, max-age=0, must-revalidate"

\* Variant: the title is taken as it is.
baseTitle_Unchanged(title) == title

baseTitle(title) ==
    IF endsWith(title, DOT_PDF) THEN SubSeq(title, 1, Len(title) - Len(DOT_PDF)) ELSE title

downloadFilename(title, version) ==
    baseTitle(title) \o
        (IF version = "signed"
         THEN <<"_", "s", "i", "g", "n", "e", "d", ".", "p", "d", "f">>
         ELSE DOT_PDF)

fileHeaders(title, status, version, isDownload, etag) ==
    LET h1 == [NoHeaders EXCEPT !.contentType = "application/pdf", !.etag = etag]
        h2 == IF ~isDownload
              THEN [h1 EXCEPT !.cacheControl = cacheControlView(status)]
              ELSE h1
    IN  IF isDownload
        THEN [h2 EXCEPT !.contentDisposition =
                            contentDisposition(downloadFilename(title, version)),
                        !.cacheControl = "no-cache, no-store, must-revalidate",
                        !.pragma = "no-cache",
                        !.expires = "0"]
        ELSE h2

\* Variant: the file is read before If-None-Match is looked at.
handleEnvelopeItemFileRequest_ReadFirst(title, status, documentData, version, isDownload, ifNoneMatch, storageOk) ==
    LET dataToUse == documentDataToUse(documentData, version)
        etag == etagOf(dataToUse)
        file == getFileServerSide(documentData.type, dataToUse, storageOk)
    IN  IF file = FILE_ERROR THEN json("File not found", 404)
        ELSE IF notModified(ifNoneMatch, etag, isDownload) THEN bodyNull304
        ELSE bodyFile(file, fileHeaders(title, status, version, isDownload, etag))

handleEnvelopeItemFileRequest(title, status, documentData, version, isDownload, ifNoneMatch, storageOk) ==
    LET dataToUse == documentDataToUse(documentData, version)
        etag == etagOf(dataToUse)
        file == getFileServerSide(documentData.type, dataToUse, storageOk)
    IN  IF notModified(ifNoneMatch, etag, isDownload) THEN bodyNull304
        ELSE IF file = FILE_ERROR THEN json("File not found", 404)
        ELSE bodyFile(file, fileHeaders(title, status, version, isDownload, etag))

(***************************************************************************)
(* Queries of the file routes                                              *)
(***************************************************************************)
\* prisma.envelope.findFirst({ where: { id: envelopeId } })
envelopeFound(envelopeId) == envelopeId \in DOMAIN envelopes

\* include: { envelopeItems: { where: { id: envelopeItemId } } }: the item
\* of that id among the items of the envelope.
envelopeItemFound(envelopeId, envelopeItemId) ==
    /\ envelopeItemId \in DOMAIN envelopeItems
    /\ envelopeItems[envelopeItemId].envelopeId = envelopeId

\* Variant: the prefix is not looked at.
envelopeWhereQuery_RecipientsOnly(token) == "recipients"

\* The where clause of the token routes: by qrToken of the envelope for a
\* token that starts with 'qr_', by the tokens of its recipients otherwise.
envelopeWhereQuery(token) ==
    IF startsWith(token, QR_PREFIX) THEN "qrToken" ELSE "recipients"

\* Variant: the token may belong to any envelope, not the one owning the item.
envelopeItemFoundByToken_AnyEnvelope(token, envelopeItemId) ==
    /\ envelopeItemId \in DOMAIN envelopeItems
    /\ \E id \in DOMAIN envelopes :
          IF startsWith(token, QR_PREFIX)
          THEN envelopes[id].qrToken = token
          ELSE token \in envelopes[id].recipients

\* prisma.envelopeItem.findUnique({ where: envelopeWhereQuery })
envelopeItemFoundByToken(token, envelopeItemId) ==
    /\ envelopeItemId \in DOMAIN envelopeItems
    /\ LET envelope == envelopes[envelopeItems[envelopeItemId].envelopeId]
       IN  IF envelopeWhereQuery(token) = "qrToken"
           THEN envelope.qrToken = token
           ELSE token \in envelope.recipients

\* Variant: the token is consulted only when there is no session user.
resolveUserId_SessionFirst(sessionUserId, token) ==
    IF sessionUserId # NoUser THEN sessionUserId ELSE verifyEmbeddingPresignToken(token)

\* let userId = session.user?.id; if (token) { userId = presignToken?.userId }
resolveUserId(sessionUserId, token) ==
    IF Len(token) > 0 THEN verifyEmbeddingPresignToken(token) ELSE sessionUserId

(***************************************************************************)
(* The four file GET routes, each as the response to a request             *)
(***************************************************************************)
\* The user the view route checks: the session user, replaced by the user
\* of the presign token when ?token= is given.
viewUserId(req) == resolveUserId(req.sessionUserId, req.queryToken)

\* Variant: the download route resolves the user as the view route does.
downloadUserId_Presign(req) == resolveUserId(req.sessionUserId, req.queryToken)

\* The user the download route checks: session.user, nothing else.
downloadUserId(req) == req.sessionUserId

\* Variant: a missing membership is answered as a missing credential.
accessDenied_Unauthorized == json("Unauthorized", 401)

\* The answer to a user that getTeamById finds no team for.
accessDenied ==
    json("User does not have access to the team that this envelope is associated with", 403)

\* Variant: the envelope and the item are looked up before the user is.
getEnvelopeItemFile_LookupFirst(req) ==
    LET userId == viewUserId(req)
    IN  IF ~envelopeFound(req.envelopeId) THEN json("Envelope not found", 404)
        ELSE IF ~envelopeItemFound(req.envelopeId, req.envelopeItemId)
        THEN json("Envelope item not found", 404)
        ELSE IF userId = NoUser THEN json("Unauthorized", 401)
        ELSE LET envelope == envelopes[req.envelopeId]
                 envelopeItem == envelopeItems[req.envelopeItemId]
             IN  IF ~getTeamById(userId, envelope.teamId, req.teamLookupOk)
                 THEN accessDenied
                 ELSE IF envelopeItem.documentData = NoDocumentData
                 THEN json("Document data not found", 404)
                 ELSE handleEnvelopeItemFileRequest(
                          envelopeItem.title, envelope.status, envelopeItem.documentData,
                          "signed", FALSE, req.ifNoneMatch, req.storageOk)

\* GET /envelope/:envelopeId/envelopeItem/:envelopeItemId[?token=]
getEnvelopeItemFile(req) ==
    LET userId == viewUserId(req)
    IN  IF userId = NoUser THEN json("Unauthorized", 401)
        ELSE IF ~envelopeFound(req.envelopeId) THEN json("Envelope not found", 404)
        ELSE IF ~envelopeItemFound(req.envelopeId, req.envelopeItemId)
        THEN json("Envelope item not found", 404)
        ELSE LET envelope == envelopes[req.envelopeId]
                 envelopeItem == envelopeItems[req.envelopeItemId]
             IN  IF ~getTeamById(userId, envelope.teamId, req.teamLookupOk)
                 THEN accessDenied
                 ELSE IF envelopeItem.documentData = NoDocumentData
                 THEN json("Document data not found", 404)
                 ELSE handleEnvelopeItemFileRequest(
                          envelopeItem.title, envelope.status, envelopeItem.documentData,
                          "signed", FALSE, req.ifNoneMatch, req.storageOk)

\* Variant: the document data is looked for before the team is.
getEnvelopeItemFileDownload_DataFirst(req) ==
    IF downloadUserId(req) = NoUser THEN json("Unauthorized", 401)
    ELSE IF ~envelopeFound(req.envelopeId) THEN json("Envelope not found", 404)
    ELSE IF ~envelopeItemFound(req.envelopeId, req.envelopeItemId)
    THEN json("Envelope item not found", 404)
    ELSE LET envelope == envelopes[req.envelopeId]
             envelopeItem == envelopeItems[req.envelopeItemId]
         IN  IF envelopeItem.documentData = NoDocumentData
             THEN json("Document data not found", 404)
             ELSE IF ~getTeamById(downloadUserId(req), envelope.teamId, req.teamLookupOk)
             THEN accessDenied
             ELSE handleEnvelopeItemFileRequest(
                      envelopeItem.title, envelope.status, envelopeItem.documentData,
                      parseVersion(req.version), TRUE, req.ifNoneMatch, req.storageOk)

\* GET /envelope/:envelopeId/envelopeItem/:envelopeItemId/download/:version?
getEnvelopeItemFileDownload(req) ==
    IF downloadUserId(req) = NoUser THEN json("Unauthorized", 401)
    ELSE IF ~envelopeFound(req.envelopeId) THEN json("Envelope not found", 404)
    ELSE IF ~envelopeItemFound(req.envelopeId, req.envelopeItemId)
    THEN json("Envelope item not found", 404)
    ELSE LET envelope == envelopes[req.envelopeId]
             envelopeItem == envelopeItems[req.envelopeItemId]
         IN  IF ~getTeamById(downloadUserId(req), envelope.teamId, req.teamLookupOk)
             THEN accessDenied
             ELSE IF envelopeItem.documentData = NoDocumentData
             THEN json("Document data not found", 404)
             ELSE handleEnvelopeItemFileRequest(
                      envelopeItem.title, envelope.status, envelopeItem.documentData,
                      parseVersion(req.version), TRUE, req.ifNoneMatch, req.storageOk)

\* GET /token/:token/envelopeItem/:envelopeItemId
getEnvelopeItemFileToken(req) ==
    IF ~envelopeItemFoundByToken(req.token, req.envelopeItemId)
    THEN json("Envelope item not found", 404)
    ELSE LET envelopeItem == envelopeItems[req.envelopeItemId]
             envelope == envelopes[envelopeItem.envelopeId]
         IN  IF envelopeItem.documentData = NoDocumentData
             THEN json("Document data not found", 404)
             ELSE handleEnvelopeItemFileRequest(
                      envelopeItem.title, envelope.status, envelopeItem.documentData,
                      "signed", FALSE, req.ifNoneMatch, req.storageOk)

\* GET /token/:token/envelopeItem/:envelopeItemId/download/:version?
getEnvelopeItemFileTokenDownload(req) ==
    IF ~envelopeItemFoundByToken(req.token, req.envelopeItemId)
    THEN json("Envelope item not found", 404)
    ELSE LET envelopeItem == envelopeItems[req.envelopeItemId]
             envelope == envelopes[envelopeItem.envelopeId]
         IN  IF envelopeItem.documentData = NoDocumentData
             THEN json("Document data not found", 404)
             ELSE handleEnvelopeItemFileRequest(
                      envelopeItem.title, envelope.status, envelopeItem.documentData,
                      parseVersion(req.version), TRUE, req.ifNoneMatch, req.storageOk)

(***************************************************************************)
(* Requests                                                                *)
(***************************************************************************)
NoRequest ==
    [route |-> "none", envelopeId |-> "", envelopeItemId |-> "", token |-> <<>>,
     queryToken |-> <<>>, sessionUserId |-> NoUser, version |-> "",
     ifNoneMatch |-> <<>>, storageOk |-> TRUE, teamLookupOk |-> TRUE]

RequestEnvelopeIds == EnvelopeIds \cup {"envelope_x"}

RequestEnvelopeItemIds == EnvelopeItemIds \cup {"item_x"}

Sessions == {NoUser} \cup Users

\* ?token= values: none, a valid presign token of a user, and a text that
\* is no valid presign token (expired, garbage, or a recipient or QR token).
QueryTokens ==
    {<<>>, <<"invalid">>} \cup {<<"presign", u>> : u \in Users}

PathTokens ==
    {TokenRecipientA, TokenRecipientB, TokenRecipientQrLike, TokenQrA,
     TokenQrUnknown, TokenUnknown, TokenLegacyQrB}

Versions == {"", "signed", "original"}

\* If-None-Match: absent, a value that is no ETag of the store, the ETag of
\* a document data text, or the hash of the signed bytes themselves.
IfNoneMatchValues ==
    {<<>>, <<"garbage">>, fingerprint(SignedBytes1)} \cup
    {etagOf(d) : d \in {InlineDocumentData1.data, InlineDocumentData1.initialData,
                        KeySigned1, KeyOriginal1, InlineDocumentData3.data}}

(***************************************************************************)
(* Uploads: putPdfFileServerSide, putNormalizedPdfFileServerSide,          *)
(* putFileServerSide and POST /upload-pdf.                                 *)
(*                                                                         *)
(* An uploaded file is [name, size, pdf, bytes]: pdf is what               *)
(* PDFDocument.load makes of the bytes ("plain", "encrypted", or           *)
(* "malformed" when it rejects); size is file.size, which only the size    *)
(* check of the route reads.  An operation yields an effect: its outcome,  *)
(* the calls it made in order, its result, and the stores after it.        *)
(***************************************************************************)
APP_DOCUMENT_UPLOAD_SIZE_LIMIT == 50

\* Convert MB to bytes
MAX_FILE_SIZE == APP_DOCUMENT_UPLOAD_SIZE_LIMIT * 1024 * 1024

isEncryptedDocumentsAllowed == FALSE

Transports == {"s3", "database", ""}

NoDescriptor == [type |-> "NONE", data |-> <<>>]

call(fn, type, data) == [fn |-> fn, type |-> type, data |-> data]

\* The key uploadS3File generates: a new one for every object.
generatedKey(store) == <<117, 48 + Cardinality(DOMAIN store)>>

\* uploadS3File(file): the object is stored under a generated key, or the
\* call rejects and stores nothing.
uploadS3File(bytes, store, putOk) ==
    IF putOk
    THEN [ok |-> TRUE, key |-> generatedKey(store),
          store |-> [k \in DOMAIN store \cup {generatedKey(store)} |->
                        IF k \in DOMAIN store THEN store[k] ELSE bytes]]
    ELSE [ok |-> FALSE, key |-> <<>>, store |-> store]

\* Variant: the bytes are stored as they are, not as base64 text.
putFileInDatabase_Unencoded(bytes, store) ==
    [ok |-> TRUE, type |-> "BYTES_64", data |-> bytes, store |-> store, calls |-> <<>>]

putFileInDatabase(bytes, store) ==
    [ok |-> TRUE, type |-> "BYTES_64", data |-> base64Encode(bytes), store |-> store,
     calls |-> <<>>]

\* Variant: a failed upload to the object store is tried once more.
putFileInS3_Retry(bytes, store, putOk) ==
    LET first == uploadS3File(bytes, store, putOk)
        second == uploadS3File(bytes, store, TRUE)
    IN  IF first.ok
        THEN [ok |-> TRUE, type |-> "S3_PATH", data |-> first.key, store |-> first.store,
              calls |-> <<call("uploadS3File", "", bytes)>>]
        ELSE [ok |-> TRUE, type |-> "S3_PATH", data |-> second.key, store |-> second.store,
              calls |-> <<call("uploadS3File", "", bytes), call("uploadS3File", "", bytes)>>]

putFileInS3(bytes, store, putOk) ==
    LET uploaded == uploadS3File(bytes, store, putOk)
    IN  [ok |-> uploaded.ok,
         type |-> IF uploaded.ok THEN "S3_PATH" ELSE "NONE",
         data |-> uploaded.key,
         store |-> uploaded.store,
         calls |-> <<call("uploadS3File", "", bytes)>>]

\* Variant: the object store keeps one object, under the key of the first.
putFileServerSide_Overwrite(bytes, store, putOk) ==
    IF transport = "s3" /\ putOk
    THEN [ok |-> TRUE, type |-> "S3_PATH", data |-> KeySigned1,
          store |-> [store EXCEPT ![KeySigned1] = bytes],
          calls |-> <<call("putFileServerSide", "", bytes),
                      call("uploadS3File", "", bytes)>>]
    ELSE [ok |-> transport # "s3", type |-> IF transport = "s3" THEN "NONE" ELSE "BYTES_64",
          data |-> IF transport = "s3" THEN <<>> ELSE base64Encode(bytes),
          store |-> store,
          calls |-> <<call("putFileServerSide", "", bytes)>>]

\* Variant: the backend is chosen by the request, short files go inline.
putFileServerSide_PerRequest(bytes, store, putOk) ==
    LET put == IF transport = "s3" /\ Len(bytes) > 4
               THEN putFileInS3(bytes, store, putOk)
               ELSE putFileInDatabase(bytes, store)
    IN  [put EXCEPT !.calls = <<call("putFileServerSide", "", bytes)>> \o put.calls]

\* match(NEXT_PUBLIC_UPLOAD_TRANSPORT).with('s3', ...).otherwise(...)
putFileServerSide(bytes, store, putOk) ==
    LET put == IF transport = "s3"
               THEN putFileInS3(bytes, store, putOk)
               ELSE putFileInDatabase(bytes, store)
    IN  [put EXCEPT !.calls = <<call("putFileServerSide", "", bytes)>> \o put.calls]

\* createDocumentData({ type, data }): one new record, or the call rejects.
createDocumentData(type, data, records, createOk) ==
    IF createOk
    THEN [ok |-> TRUE,
          records |-> Append(records, [type |-> type, data |-> data, initialData |-> data])]
    ELSE [ok |-> FALSE, records |-> records]

\* normalizePdf(buffer): rejects what PDFDocument.load rejects and what is
\* encrypted; otherwise the document saved again.
normalizePdf(file) ==
    IF file.pdf # "plain"
    THEN [ok |-> FALSE, bytes |-> <<>>]
    ELSE [ok |-> TRUE, bytes |-> file.bytes \o <<10>>]

effect(outcome, calls, result, store, records) ==
    [outcome |-> outcome, calls |-> calls, result |-> result,
     objectStore |-> store, documentDatas |-> records]

\* Variant: the record is created whether or not the put succeeded.
putThenCreate_CreateRegardless(bytes, calls, putOk, createOk) ==
    LET put == putFileServerSide(bytes, objectStore, putOk)
        created == createDocumentData(put.type, put.data, documentDatas, createOk)
        createCall == call("createDocumentData", put.type, put.data)
    IN  IF ~created.ok
        THEN effect("DATABASE_ERROR", calls \o put.calls \o <<createCall>>, NoDescriptor,
                    put.store, documentDatas)
        ELSE effect(IF put.ok THEN "ok" ELSE "STORAGE_ERROR",
                    calls \o put.calls \o <<createCall>>,
                    [type |-> put.type, data |-> put.data],
                    put.store, created.records)

\* The part of both upload functions after validation: put, then create.
putThenCreate(bytes, calls, putOk, createOk) ==
    LET put == putFileServerSide(bytes, objectStore, putOk)
        created == createDocumentData(put.type, put.data, documentDatas, createOk)
        createCall == call("createDocumentData", put.type, put.data)
    IN  IF ~put.ok
        THEN effect("STORAGE_ERROR", calls \o put.calls, NoDescriptor,
                    put.store, documentDatas)
        ELSE IF ~created.ok
        THEN effect("DATABASE_ERROR", calls \o put.calls \o <<createCall>>, NoDescriptor,
                    put.store, documentDatas)
        ELSE effect("ok", calls \o put.calls \o <<createCall>>,
                    [type |-> put.type, data |-> put.data],
                    put.store, created.records)

\* Variant: encrypted documents are let through.
putPdfFileServerSide_EncryptedAllowed(file, putOk, createOk) ==
    LET loadCall == <<call("PDFDocument.load", "", file.bytes)>>
    IN  IF file.pdf = "malformed"
        THEN effect("INVALID_DOCUMENT_FILE", loadCall, NoDescriptor,
                    objectStore, documentDatas)
        ELSE putThenCreate(file.bytes, loadCall, putOk, createOk)

putPdfFileServerSide(file, putOk, createOk) ==
    LET loadCall == <<call("PDFDocument.load", "", file.bytes)>>
    IN  IF file.pdf = "malformed"
        THEN effect("INVALID_DOCUMENT_FILE", loadCall, NoDescriptor,
                    objectStore, documentDatas)
        ELSE IF ~isEncryptedDocumentsAllowed /\ file.pdf = "encrypted"
        THEN effect("INVALID_DOCUMENT_FILE", loadCall, NoDescriptor,
                    objectStore, documentDatas)
        ELSE putThenCreate(file.bytes, loadCall, putOk, createOk)

putNormalizedPdfFileServerSide(file, putOk, createOk) ==
    LET normalizeCall == <<call("normalizePdf", "", file.bytes)>>
        normalized == normalizePdf(file)
    IN  IF ~normalized.ok
        THEN effect("INVALID_DOCUMENT_FILE", normalizeCall, NoDescriptor,
                    objectStore, documentDatas)
        ELSE putThenCreate(normalized.bytes, normalizeCall, putOk, createOk)

\* The file name the upload functions pass on: '.pdf' is appended unless
\* the name ends with it.
uploadFileName(name) == IF endsWith(name, DOT_PDF) THEN name ELSE name \o DOT_PDF

NoFile == [name |-> <<>>, size |-> 0, pdf |-> "none", bytes |-> <<>>]

NoEffect == effect("none", <<>>, NoDescriptor, objectStore, documentDatas)

\* Variant: a file of exactly the maximum size is refused too.
uploadPdf_MaximumRefused(hasFile, file, putOk, createOk) ==
    IF ~hasFile
    THEN [response |-> json("No file provided", 400), effect |-> NoEffect]
    ELSE IF file.size >= MAX_FILE_SIZE
    THEN [response |-> json("File too large", 400), effect |-> NoEffect]
    ELSE LET result == putNormalizedPdfFileServerSide(file, putOk, createOk)
         IN  IF result.outcome = "ok"
             THEN [response |-> json("", 200), effect |-> result]
             ELSE [response |-> json("Upload failed", 500), effect |-> result]

\* POST /upload-pdf: the response and the effect.
uploadPdf(hasFile, file, putOk, createOk) ==
    IF ~hasFile
    THEN [response |-> json("No file provided", 400), effect |-> NoEffect]
    ELSE IF file.size > MAX_FILE_SIZE
    THEN [response |-> json("File too large", 400), effect |-> NoEffect]
    ELSE LET result == putNormalizedPdfFileServerSide(file, putOk, createOk)
         IN  IF result.outcome = "ok"
             THEN [response |-> json("", 200), effect |-> result]
             ELSE [response |-> json("Upload failed", 500), effect |-> result]

\* The getFileServerSide calls of handleEnvelopeItemFileRequest: none when
\* it answers 304, one otherwise.
handlerReads(documentData, version, isDownload, ifNoneMatch) ==
    LET dataToUse == documentDataToUse(documentData, version)
    IN  IF notModified(ifNoneMatch, etagOf(dataToUse), isDownload)
        THEN <<>>
        ELSE <<call("getFileServerSide", documentData.type, dataToUse)>>

NoRetrieval ==
    [phase |-> "none", title |-> <<>>, status |-> "", documentData |-> NoDocumentData,
     version |-> "", isDownload |-> FALSE, reads |-> <<>>]

(***************************************************************************)
(* queryAuditLogs                                                          *)
(*                                                                         *)
(* A row of DocumentAuditLog is its id; the table is the sequence of the   *)
(* rows of the envelope in the order of orderBy.  No cursor is 0.          *)
(***************************************************************************)
NoCursor == 0

RECENT_ACTIVITY_EVENT_TYPES == {"DOCUMENT_COMPLETED", "DOCUMENT_CREATED", "DOCUMENT_DELETED", "DOCUMENT_OPENED", "DOCUMENT_RECIPIENT_COMPLETED", "DOCUMENT_RECIPIENT_REJECTED", "DOCUMENT_SENT", "DOCUMENT_MOVED_TO_TEAM"}

\* The type and the data.isResending of the row of an id.
auditLogType(id) ==
    IF id % 4 = 1 THEN "DOCUMENT_SENT"
    ELSE IF id % 4 = 2 THEN "DOCUMENT_FIELD_INSERTED"
    ELSE "EMAIL_SENT"

auditLogIsResending(id) == id % 4 = 3

\* buildAuditLogWhereClause(envelope, filterForRecentActivity), as the test
\* of a row of the envelope.
buildAuditLogWhereClause(filterForRecentActivity, id) ==
    IF ~filterForRecentActivity
    THEN TRUE
    ELSE \/ auditLogType(id) \in RECENT_ACTIVITY_EVENT_TYPES
         \/ auditLogType(id) = "EMAIL_SENT" /\ auditLogIsResending(id)

RECURSIVE selectRows(_, _)
selectRows(rows, filterForRecentActivity) ==
    IF rows = <<>> THEN <<>>
    ELSE (IF buildAuditLogWhereClause(filterForRecentActivity, Head(rows))
          THEN <<Head(rows)>> ELSE <<>>)
         \o selectRows(Tail(rows), filterForRecentActivity)

\* The place of the cursor row among the rows, 0 when it is not there.
cursorIndex(rows, cursor) ==
    IF \E i \in DOMAIN rows : rows[i] = cursor
    THEN CHOOSE i \in DOMAIN rows : rows[i] = cursor
    ELSE 0

\* prisma.documentAuditLog.findMany({ where, skip, take, orderBy, cursor }):
\* from the cursor row on (from the first row without a cursor), skip rows
\* are passed over and at most take rows returned.
findMany(rows, skip, take, cursor) ==
    LET from == IF cursor = NoCursor THEN 1 ELSE cursorIndex(rows, cursor)
        first == from + skip
        last == IF first + take - 1 < Len(rows) THEN first + take - 1 ELSE Len(rows)
    IN  IF from = 0 \/ first > Len(rows) THEN <<>> ELSE SubSeq(rows, first, last)

\* Math.max(a, b)
max(a, b) == IF a >= b THEN a ELSE b

\* Math.ceil(a / b) for a >= 0 and b >= 1
ceilOfQuotient(a, b) == (a + b - 1) \div b

\* Variant: the cursor handed out is the id of the last row returned.
queryAuditLogs_CursorOfLastRow(rows, page, perPage, cursor, filterForRecentActivity) ==
    LET where == selectRows(rows, filterForRecentActivity)
        normalizedPage == max(page, 1)
        skip == (normalizedPage - 1) * perPage
        data == findMany(where, skip, perPage + 1, cursor)
        hasNextPage == Len(data) > perPage
    IN  [data |-> IF hasNextPage THEN SubSeq(data, 1, perPage) ELSE data,
         count |-> Len(where),
         currentPage |-> normalizedPage,
         perPage |-> perPage,
         totalPages |-> ceilOfQuotient(Len(where), perPage),
         nextCursor |-> IF hasNextPage THEN data[perPage] ELSE NoCursor]

queryAuditLogs(rows, page, perPage, cursor, filterForRecentActivity) ==
    LET where == selectRows(rows, filterForRecentActivity)
        normalizedPage == max(page, 1)
        skip == (normalizedPage - 1) * perPage
        data == findMany(where, skip, perPage + 1, cursor)
        hasNextPage == Len(data) > perPage
    IN  [data |-> IF hasNextPage THEN SubSeq(data, 1, perPage) ELSE data,
         count |-> Len(where),
         currentPage |-> normalizedPage,
         perPage |-> perPage,
         totalPages |-> ceilOfQuotient(Len(where), perPage),
         nextCursor |-> IF hasNextPage THEN data[perPage + 1] ELSE NoCursor]

NoResult ==
    [data |-> <<>>, count |-> 0, currentPage |-> 0, perPage |-> 0, totalPages |-> 0,
     nextCursor |-> NoCursor]

NoAuditQuery ==
    [page |-> 0, perPage |-> 0, cursor |-> NoCursor, filterForRecentActivity |-> FALSE,
     outcome |-> "none", fetched |-> 0,
     result |-> NoResult, followed |-> FALSE, previous |-> NoResult]

(***************************************************************************)
(* POST /presigned-post-url                                                *)
(***************************************************************************)
\* How the call of the object store ends: with an authorization, or with
\* one of its errors.
PresignBackendOutcomes == {"ok", "network error", "credentials error"}

\* getPresignPostUrl(fileName, contentType): a key made from the file name
\* and the URL to post the object of that key to, or the error the object
\* store ended with.
getPresignPostUrl(fileName, contentType, backend) ==
    IF backend = "ok"
    THEN [ok |-> TRUE, key |-> <<"k", "/">> \o fileName,
          url |-> <<"u", "/", "k", "/">> \o fileName \o <<"?", contentType>>,
          error |-> ""]
    ELSE [ok |-> FALSE, key |-> <<>>, url |-> <<>>, error |-> backend]

\* The response to a thrown AppError(code).
appErrorResponse(code) == json(code, 500)

\* Variant: what the call returned is passed on as it is, its error too.
presignedPostUrl_PassedOn(fileName, contentType, backend) ==
    LET presigned == getPresignPostUrl(fileName, contentType, backend)
    IN  [outcome |-> IF presigned.ok THEN "ok" ELSE presigned.error,
         calls |-> <<call("getPresignPostUrl", contentType, fileName)>>,
         key |-> presigned.key, url |-> presigned.url,
         response |-> IF presigned.ok THEN json("", 200) ELSE json(presigned.error, 500)]

\* The handler of POST /presigned-post-url: { key, url } of the one call,
\* or AppError(UNKNOWN_ERROR) thrown when the call rejects.
presignedPostUrl(fileName, contentType, backend) ==
    LET presigned == getPresignPostUrl(fileName, contentType, backend)
    IN  IF presigned.ok
        THEN [outcome |-> "ok",
              calls |-> <<call("getPresignPostUrl", contentType, fileName)>>,
              key |-> presigned.key, url |-> presigned.url,
              response |-> json("", 200)]
        ELSE [outcome |-> "UNKNOWN_ERROR",
              calls |-> <<call("getPresignPostUrl", contentType, fileName)>>,
              key |-> <<>>, url |-> <<>>,
              response |-> appErrorResponse("UNKNOWN_ERROR")]

NoPresign ==
    [fileName |-> <<>>, contentType |-> "", backend |-> "none", outcome |-> "none",
     calls |-> <<>>, key |-> <<>>, url |-> <<>>]

NoUpload ==
    [entry |-> "none", hasFile |-> FALSE, file |-> NoFile, fileName |-> <<>>,
     putOk |-> TRUE, createOk |-> TRUE,
     outcome |-> "none", calls |-> <<>>, result |-> NoDescriptor]

(***************************************************************************)
(* Specification                                                           *)
(***************************************************************************)
Init ==
    /\ \E statusA \in DocumentStatus, statusB \in {"DRAFT", "COMPLETED"} :
          envelopes =
              [id \in EnvelopeIds |->
                  IF id = "envelope_a"
                  THEN [status |-> statusA, teamId |-> 1, qrToken |-> TokenQrA,
                        recipients |-> {TokenRecipientA, TokenRecipientQrLike}]
                  ELSE [status |-> statusB, teamId |-> 2, qrToken |-> TokenLegacyQrB,
                        recipients |-> {TokenRecipientB}]]
    /\ \E documentData1 \in {InlineDocumentData1, S3DocumentData1} :
          envelopeItems =
              [id \in EnvelopeItemIds |->
                  IF id = "item_1"
                  THEN [envelopeId |-> "envelope_a", title |-> TitlePdf,
                        documentData |-> documentData1]
                  ELSE IF id = "item_2"
                  THEN [envelopeId |-> "envelope_a", title |-> TitlePlain,
                        documentData |-> S3DocumentData2]
                  ELSE IF id = "item_3"
                  THEN [envelopeId |-> "envelope_b", title |-> TitleDoublePdf,
                        documentData |-> InlineDocumentData3]
                  ELSE [envelopeId |-> "envelope_b", title |-> TitleOnlyPdf,
                        documentData |-> NoDocumentData]]
    /\ objectStore = InitialObjectStore
    /\ request = NoRequest
    /\ response = NoResponse
    /\ transport = "s3"
    /\ documentDatas = <<>>
    /\ upload = NoUpload
    /\ retrieval = NoRetrieval
    /\ presign = NoPresign
    /\ auditLogs = <<>>
    /\ auditQuery = NoAuditQuery

Idle == response = NoResponse

EnvelopeItemFileRequest ==
    /\ Idle
    /\ \E envelopeId \in RequestEnvelopeIds, envelopeItemId \in RequestEnvelopeItemIds,
          sessionUserId \in Sessions, queryToken \in QueryTokens,
          ifNoneMatch \in IfNoneMatchValues, storageOk \in BOOLEAN,
          teamLookupOk \in BOOLEAN :
          request' = [NoRequest EXCEPT !.route = "view",
                                       !.envelopeId = envelopeId,
                                       !.envelopeItemId = envelopeItemId,
                                       !.sessionUserId = sessionUserId,
                                       !.queryToken = queryToken,
                                       !.ifNoneMatch = ifNoneMatch,
                                       !.storageOk = storageOk,
                                       !.teamLookupOk = teamLookupOk]
    /\ response' = getEnvelopeItemFile(request')
    /\ UNCHANGED <<envelopes, envelopeItems, objectStore, transport, documentDatas, upload, retrieval, presign, auditLogs, auditQuery>>

EnvelopeItemFileDownloadRequest ==
    /\ Idle
    /\ \E envelopeId \in RequestEnvelopeIds, envelopeItemId \in RequestEnvelopeItemIds,
          sessionUserId \in Sessions, queryToken \in QueryTokens,
          version \in Versions,
          ifNoneMatch \in IfNoneMatchValues, storageOk \in BOOLEAN,
          teamLookupOk \in BOOLEAN :
          request' = [NoRequest EXCEPT !.route = "download",
                                       !.envelopeId = envelopeId,
                                       !.envelopeItemId = envelopeItemId,
                                       !.sessionUserId = sessionUserId,
                                       !.queryToken = queryToken,
                                       !.version = version,
                                       !.ifNoneMatch = ifNoneMatch,
                                       !.storageOk = storageOk,
                                       !.teamLookupOk = teamLookupOk]
    /\ response' = getEnvelopeItemFileDownload(request')
    /\ UNCHANGED <<envelopes, envelopeItems, objectStore, transport, documentDatas, upload, retrieval, presign, auditLogs, auditQuery>>

EnvelopeItemFileTokenRequest ==
    /\ Idle
    /\ \E token \in PathTokens, envelopeItemId \in RequestEnvelopeItemIds,
          sessionUserId \in Sessions,
          ifNoneMatch \in IfNoneMatchValues, storageOk \in BOOLEAN :
          request' = [NoRequest EXCEPT !.route = "tokenView",
                                       !.token = token,
                                       !.envelopeItemId = envelopeItemId,
                                       !.sessionUserId = sessionUserId,
                                       !.ifNoneMatch = ifNoneMatch,
                                       !.storageOk = storageOk]
    /\ response' = getEnvelopeItemFileToken(request')
    /\ UNCHANGED <<envelopes, envelopeItems, objectStore, transport, documentDatas, upload, retrieval, presign, auditLogs, auditQuery>>

EnvelopeItemFileTokenDownloadRequest ==
    /\ Idle
    /\ \E token \in PathTokens, envelopeItemId \in RequestEnvelopeItemIds,
          sessionUserId \in Sessions, version \in Versions,
          ifNoneMatch \in IfNoneMatchValues, storageOk \in BOOLEAN :
          request' = [NoRequest EXCEPT !.route = "tokenDownload",
                                       !.token = token,
                                       !.envelopeItemId = envelopeItemId,
                                       !.sessionUserId = sessionUserId,
                                       !.version = version,
                                       !.ifNoneMatch = ifNoneMatch,
                                       !.storageOk = storageOk]
    /\ response' = getEnvelopeItemFileTokenDownload(request')
    /\ UNCHANGED <<envelopes, envelopeItems, objectStore, transport, documentDatas, upload, retrieval, presign, auditLogs, auditQuery>>

\* The response has been sent; the server takes the next request.
FinishRequest ==
    /\ ~Idle
    /\ request' = NoRequest
    /\ response' = NoResponse
    /\ UNCHANGED <<envelopes, envelopeItems, objectStore, transport, documentDatas, upload, retrieval, presign, auditLogs, auditQuery>>

Next ==
    \/ EnvelopeItemFileRequest
    \/ EnvelopeItemFileDownloadRequest
    \/ EnvelopeItemFileTokenRequest
    \/ EnvelopeItemFileTokenDownloadRequest
    \/ FinishRequest

Spec == Init /\ [][Next]_vars

(***************************************************************************)
(* Uploads as a state machine                                              *)
(***************************************************************************)
MaxUploads == 2

FileNames == {<<"a">>, <<"a", ".", "p", "d", "f">>}

FileSizes == {1, MAX_FILE_SIZE, MAX_FILE_SIZE + 1}

FileContents == {SignedBytes1, Bytes3}

UploadFiles ==
    [name : FileNames, size : FileSizes, pdf : {"plain", "encrypted", "malformed"},
     bytes : FileContents]

\* The stores the uploads start from; the transport is configuration.
InitUpload ==
    /\ envelopes =
           [id \in EnvelopeIds |->
               IF id = "envelope_a"
               THEN [status |-> "DRAFT", teamId |-> 1, qrToken |-> TokenQrA,
                     recipients |-> {TokenRecipientA, TokenRecipientQrLike}]
               ELSE [status |-> "COMPLETED", teamId |-> 2, qrToken |-> TokenLegacyQrB,
                     recipients |-> {TokenRecipientB}]]
    /\ envelopeItems =
           [id \in EnvelopeItemIds |->
               IF id = "item_1"
               THEN [envelopeId |-> "envelope_a", title |-> TitlePdf,
                     documentData |-> S3DocumentData1]
               ELSE IF id = "item_2"
               THEN [envelopeId |-> "envelope_a", title |-> TitlePlain,
                     documentData |-> S3DocumentData2]
               ELSE IF id = "item_3"
               THEN [envelopeId |-> "envelope_b", title |-> TitleDoublePdf,
                     documentData |-> InlineDocumentData3]
               ELSE [envelopeId |-> "envelope_b", title |-> TitleOnlyPdf,
                     documentData |-> NoDocumentData]]
    /\ objectStore = InitialObjectStore
    /\ request = NoRequest
    /\ response = NoResponse
    /\ transport \in Transports
    /\ documentDatas = <<>>
    /\ upload = NoUpload
    /\ retrieval = NoRetrieval
    /\ presign = NoPresign
    /\ auditLogs = <<>>
    /\ auditQuery = NoAuditQuery

\* Room for one more record and one more object.
UploadRoom ==
    /\ Len(documentDatas) < MaxUploads
    /\ Cardinality(DOMAIN objectStore) <
           Cardinality(DOMAIN InitialObjectStore) + MaxUploads

uploadRecord(entry, hasFile, file, putOk, createOk, result) ==
    [entry |-> entry, hasFile |-> hasFile, file |-> file,
     fileName |-> IF result.outcome \in {"none", "INVALID_DOCUMENT_FILE"}
                  THEN <<>> ELSE uploadFileName(file.name),
     putOk |-> putOk, createOk |-> createOk,
     outcome |-> result.outcome, calls |-> result.calls, result |-> result.result]

\* POST /upload-pdf with one of the files
uploadPdfRequest(files) ==
    /\ Idle /\ upload = NoUpload /\ UploadRoom
    /\ \E hasFile \in BOOLEAN, file \in files, putOk \in BOOLEAN, createOk \in BOOLEAN :
          /\ hasFile \/ (file = CHOOSE f \in files : TRUE)
          /\ LET answer == uploadPdf(hasFile, file, putOk, createOk)
             IN  /\ response' = answer.response
                 /\ upload' = uploadRecord("upload-pdf", hasFile,
                                           IF hasFile THEN file ELSE NoFile,
                                           putOk, createOk, answer.effect)
                 /\ objectStore' = answer.effect.objectStore
                 /\ documentDatas' = answer.effect.documentDatas
    /\ UNCHANGED <<envelopes, envelopeItems, request, transport, retrieval, presign, auditLogs, auditQuery>>

UploadPdfRequest == uploadPdfRequest(UploadFiles)

\* A call of putPdfFileServerSide(file), by the document-creation code, with
\* one of the files
putPdfFileCall(files) ==
    /\ Idle /\ upload = NoUpload /\ UploadRoom
    /\ \E file \in files, putOk \in BOOLEAN, createOk \in BOOLEAN :
          LET result == putPdfFileServerSide(file, putOk, createOk)
          IN  /\ upload' = uploadRecord("putPdfFileServerSide", TRUE, file,
                                        putOk, createOk, result)
              /\ objectStore' = result.objectStore
              /\ documentDatas' = result.documentDatas
    /\ UNCHANGED <<envelopes, envelopeItems, request, response, transport, retrieval, presign, auditLogs, auditQuery>>

PutPdfFileCall == putPdfFileCall(UploadFiles)

\* The upload has returned to its caller.
FinishUpload ==
    /\ upload # NoUpload
    /\ upload' = NoUpload
    /\ response' = IF upload.entry = "upload-pdf" THEN NoResponse ELSE response
    /\ UNCHANGED <<envelopes, envelopeItems, objectStore, request, transport, documentDatas, retrieval, presign, auditLogs, auditQuery>>

ContentTypes == {"application/pdf", "image/png"}

\* POST /presigned-post-url
PresignedPostUrlRequest ==
    /\ Idle /\ upload = NoUpload /\ presign = NoPresign
    /\ \E fileName \in FileNames, contentType \in ContentTypes,
          backend \in PresignBackendOutcomes :
          LET answer == presignedPostUrl(fileName, contentType, backend)
          IN  /\ response' = answer.response
              /\ presign' = [fileName |-> fileName, contentType |-> contentType,
                             backend |-> backend, outcome |-> answer.outcome,
                             calls |-> answer.calls, key |-> answer.key, url |-> answer.url]
    /\ UNCHANGED <<envelopes, envelopeItems, objectStore, request, transport, documentDatas, upload, retrieval, auditLogs, auditQuery>>

\* The response to POST /presigned-post-url has been sent.
FinishPresign ==
    /\ presign # NoPresign
    /\ presign' = NoPresign
    /\ response' = NoResponse
    /\ UNCHANGED <<envelopes, envelopeItems, objectStore, request, transport, documentDatas, upload, retrieval, auditLogs, auditQuery>>

NextUpload ==
    \/ UploadPdfRequest
    \/ PutPdfFileCall
    \/ FinishUpload
    \/ PresignedPostUrlRequest
    \/ FinishPresign

UploadSpec == InitUpload /\ [][NextUpload]_vars

(***************************************************************************)
(* putFileServerSide over all byte sequences                               *)
(***************************************************************************)
MaxLen == 3

ByteAlphabet == {0, 255}

ByteSequences == UNION {[1..n -> ByteAlphabet] : n \in 0..MaxLen}

\* A call of putFileServerSide(file) with any content.
PutFileCall ==
    /\ Idle /\ upload = NoUpload /\ UploadRoom
    /\ \E bytes \in ByteSequences, putOk \in BOOLEAN :
          LET put == putFileServerSide(bytes, objectStore, putOk)
              file == [name |-> <<"a">>, size |-> Len(bytes), pdf |-> "plain",
                       bytes |-> bytes]
              result == effect(IF put.ok THEN "ok" ELSE "STORAGE_ERROR", put.calls,
                               [type |-> put.type, data |-> put.data],
                               put.store, documentDatas)
          IN  /\ putOk \/ transport = "s3"
              /\ upload' = uploadRecord("putFileServerSide", TRUE, file, putOk, TRUE, result)
              /\ objectStore' = put.store
    /\ UNCHANGED <<envelopes, envelopeItems, request, response, transport, documentDatas, retrieval, presign, auditLogs, auditQuery>>

NextRoundTrip ==
    \/ PutFileCall
    \/ FinishUpload

RoundTripSpec == InitUpload /\ [][NextRoundTrip]_vars

(***************************************************************************)
(* Uploads and retrievals in flight together                               *)
(*                                                                         *)
(* A retrieval awaits twice: the database query, then the read of the      *)
(* storage.  Uploads, and the collaborator that points an envelope item at *)
(* an uploaded record, run between the two.  The retrievals here are those *)
(* of a member of the owning team for item_1, on the view and the download *)
(* route.                                                                  *)
(***************************************************************************)
ConcurrentFiles ==
    [name : {<<"a">>}, size : {1}, pdf : {"plain"}, bytes : FileContents]

ConcurrentIfNoneMatch == {<<>>, etagOf(KeySigned1)}

\* The query of the route has returned the envelope and the item with its
\* document data; the checks up to the call of
\* handleEnvelopeItemFileRequest have passed.
BeginRetrieval ==
    /\ Idle /\ request = NoRequest /\ retrieval = NoRetrieval
    /\ \E route \in {"view", "download"}, version \in {"signed", "original"},
          ifNoneMatch \in ConcurrentIfNoneMatch, storageOk \in BOOLEAN :
          LET req == [NoRequest EXCEPT !.route = route,
                                       !.envelopeId = "envelope_a",
                                       !.envelopeItemId = "item_1",
                                       !.sessionUserId = 1,
                                       !.version = IF route = "view" THEN "" ELSE version,
                                       !.ifNoneMatch = ifNoneMatch,
                                       !.storageOk = storageOk]
              answer == IF route = "view"
                        THEN getEnvelopeItemFile(req)
                        ELSE getEnvelopeItemFileDownload(req)
              envelope == envelopes[req.envelopeId]
              envelopeItem == envelopeItems[req.envelopeItemId]
          IN  /\ route = "view" => version = "signed"
              /\ \/ answer.status \in {200, 304}
                 \/ answer.error = "File not found"
              /\ request' = req
              /\ retrieval' = [phase |-> "queried",
                               title |-> envelopeItem.title,
                               status |-> envelope.status,
                               documentData |-> envelopeItem.documentData,
                               version |-> IF route = "view" THEN "signed"
                                           ELSE parseVersion(req.version),
                               isDownload |-> route = "download",
                               reads |-> <<>>]
    /\ UNCHANGED <<envelopes, envelopeItems, objectStore, response, transport,
                   documentDatas, upload, presign, auditLogs, auditQuery>>

\* handleEnvelopeItemFileRequest runs on what the query returned.
CompleteRetrieval ==
    /\ Idle /\ retrieval.phase = "queried"
    /\ response' = handleEnvelopeItemFileRequest(
                       retrieval.title, retrieval.status, retrieval.documentData,
                       retrieval.version, retrieval.isDownload,
                       request.ifNoneMatch, request.storageOk)
    /\ retrieval' = [retrieval EXCEPT
                        !.phase = "answered",
                        !.reads = handlerReads(retrieval.documentData, retrieval.version,
                                               retrieval.isDownload, request.ifNoneMatch)]
    /\ UNCHANGED <<envelopes, envelopeItems, objectStore, request, transport,
                   documentDatas, upload, presign, auditLogs, auditQuery>>

FinishRetrieval ==
    /\ retrieval.phase = "answered"
    /\ request' = NoRequest
    /\ response' = NoResponse
    /\ retrieval' = NoRetrieval
    /\ UNCHANGED <<envelopes, envelopeItems, objectStore, transport, documentDatas, upload, presign, auditLogs, auditQuery>>

\* The collaborator points item_1 at a record an upload created.
RepointEnvelopeItem ==
    \E i \in DOMAIN documentDatas :
        /\ envelopeItems["item_1"].documentData # documentDatas[i]
        /\ envelopeItems' =
               [envelopeItems EXCEPT !["item_1"].documentData = documentDatas[i]]
        /\ UNCHANGED <<envelopes, objectStore, request, response, transport,
                       documentDatas, upload, retrieval, presign, auditLogs, auditQuery>>

ConcurrentUploadPdfRequest == uploadPdfRequest(ConcurrentFiles)

ConcurrentPutPdfFileCall == putPdfFileCall(ConcurrentFiles)

NextConcurrent ==
    \/ BeginRetrieval
    \/ CompleteRetrieval
    \/ FinishRetrieval
    \/ RepointEnvelopeItem
    \/ ConcurrentUploadPdfRequest
    \/ ConcurrentPutPdfFileCall
    \/ FinishUpload

ConcurrentSpec == InitUpload /\ [][NextConcurrent]_vars

(***************************************************************************)
(* Vocabulary of the properties                                            *)
(***************************************************************************)
SessionRoutes == {"view", "download"}

TokenRoutes == {"tokenView", "tokenDownload"}

FileRoutes == SessionRoutes \cup TokenRoutes

IsDownload == request.route \in {"download", "tokenDownload"}

\* The version a request is served: the view routes serve 'signed'.
RequestVersion ==
    IF IsDownload /\ request.version = "original" THEN "original" ELSE "signed"

RequestItemExists == request.envelopeItemId \in DOMAIN envelopeItems

RequestItem == envelopeItems[request.envelopeItemId]

OwningEnvelope == envelopes[RequestItem.envelopeId]

\* The request got as far as handleEnvelopeItemFileRequest.
HandlerAnswered ==
    /\ request.route \in FileRoutes
    /\ \/ response.status \in {200, 304}
       \/ response.status = 404 /\ response.error = "File not found"

\* The stored text of the version requested, its ETag and its bytes.
RequestDataText ==
    IF RequestVersion = "signed"
    THEN RequestItem.documentData.data
    ELSE RequestItem.documentData.initialData

CurrentETag == <<"hex", <<"sha256", RequestDataText>>>>

RequestBytesReadable ==
    IF RequestItem.documentData.type = "S3_PATH"
    THEN request.storageOk /\ RequestDataText \in DOMAIN objectStore
    ELSE TRUE

RequestBytes ==
    IF RequestItem.documentData.type = "S3_PATH"
    THEN objectStore[RequestDataText]
    ELSE base64Decode(RequestDataText)

IsNotModifiedResponse ==
    /\ response.status = 304
    /\ response.kind = "empty"
    /\ response.body = <<>>

IsFullBodyResponse ==
    /\ response.status = 200
    /\ response.kind = "body"
    /\ response.body = RequestBytes

(***************************************************************************)
(* C1                                                                      *)
(***************************************************************************)
\* C1 as stated: once the request is authorized and handed to
\* handleEnvelopeItemFileRequest, the answer is 304 with an empty body
\* exactly when If-None-Match equals the current ETag and the request is a
\* view, and a download with a matching If-None-Match always gets 200 with
\* the full body.
C1_AsStated ==
    HandlerAnswered =>
        /\ IsNotModifiedResponse <=> (request.ifNoneMatch = CurrentETag /\ ~IsDownload)
        /\ (IsDownload /\ request.ifNoneMatch = CurrentETag) => IsFullBodyResponse

\* C1 amended: 304 with an empty body exactly when If-None-Match equals the
\* current ETag and the request is a view; a download with a matching
\* If-None-Match never gets 304, and gets 200 with the full body whenever
\* the file can be read from storage.
C1_ConditionalResponse ==
    HandlerAnswered =>
        /\ IsNotModifiedResponse <=> (request.ifNoneMatch = CurrentETag /\ ~IsDownload)
        /\ response.status = 304 => IsNotModifiedResponse
        /\ (IsDownload /\ request.ifNoneMatch = CurrentETag) =>
              /\ response.status # 304
              /\ RequestBytesReadable => IsFullBodyResponse

C1_Witness ==
    /\ IsDownload
    /\ HandlerAnswered
    /\ request.ifNoneMatch = CurrentETag
    /\ IsFullBodyResponse

C3_CachePolicy ==
    (request.route \in FileRoutes /\ response.status = 200) =>
        IF IsDownload
        THEN /\ response.headers.cacheControl = "no-cache, no-store, must-revalidate"
             /\ response.headers.expires = "0"
        ELSE IF OwningEnvelope.status = "COMPLETED"
        THEN response.headers.cacheControl = "public, max-age=31536000, immutable"
        ELSE response.headers.cacheControl = "public, max-age=0, must-revalidate"

C3_Witness ==
    /\ request.route = "tokenView"
    /\ response.status = 200
    /\ OwningEnvelope.status = "PENDING"
    /\ response.headers.cacheControl = "public, max-age=0, must-revalidate"

(***************************************************************************)
(* Vocabulary of the authorization properties                              *)
(***************************************************************************)
\* The user a credential of the request stands for: on the view route the
\* user of a valid ?token= when one is given; the session user otherwise.
CredentialUser ==
    IF request.route = "view" /\ Len(request.queryToken) > 0
    THEN IF request.queryToken[1] = "presign" THEN request.queryToken[2] ELSE NoUser
    ELSE request.sessionUserId

\* The envelope and the item named by a session-route request exist.
RequestTargetExists ==
    /\ request.envelopeId \in DOMAIN envelopes
    /\ RequestItemExists
    /\ RequestItem.envelopeId = request.envelopeId

IsTeamMember(userId) ==
    /\ OwningEnvelope.teamId \in DOMAIN TeamMembers
    /\ userId \in TeamMembers[OwningEnvelope.teamId]

FileServed == response.status \in {200, 304}

TokenIsQr == startsWith(request.token, QR_PREFIX)

\* The token routes found the item for the token (everything short of that
\* is 404 "Envelope item not found").
TokenAuthorized ==
    ~(response.status = 404 /\ response.error = "Envelope item not found")

(***************************************************************************)
(* C4                                                                      *)
(***************************************************************************)
\* C4: a request of a token route without session and presign token, for
\* an existing item, whose token is neither a recipient token nor the QR
\* token of the envelope owning the item, is answered 401.
C4_WrongTokenIs401 ==
    (/\ request.route \in TokenRoutes
     /\ request.sessionUserId = NoUser
     /\ request.queryToken = <<>>
     /\ RequestItemExists
     /\ request.token \notin OwningEnvelope.recipients
     /\ request.token # OwningEnvelope.qrToken) =>
        response.status = 401

(***************************************************************************)
(* C5                                                                      *)
(***************************************************************************)
\* C5: on the view and download routes a request whose credential resolves
\* to a user without membership on the team of an existing envelope and
\* item is answered 403, and 403 is answered only when the envelope and the
\* item exist.
C5_NonMemberIs403 ==
    /\ (/\ request.route \in SessionRoutes
        /\ CredentialUser # NoUser
        /\ RequestTargetExists
        /\ ~IsTeamMember(CredentialUser)) =>
           response.status = 403
    /\ (request.route \in FileRoutes /\ response.status = 403) =>
           /\ request.route \in SessionRoutes
           /\ RequestTargetExists

C5_Witness ==
    /\ request.route = "download"
    /\ request.sessionUserId = 3
    /\ request.teamLookupOk
    /\ RequestTargetExists
    /\ response.status = 403

(***************************************************************************)
(* C6                                                                      *)
(***************************************************************************)
\* C6: on the view route a valid session of a member of the envelope's team
\* is sufficient whatever else the request carries: it is never answered
\* 401 or 403, in particular not because of an invalid ?token=.
C6_SessionSufficient ==
    (/\ request.route = "view"
     /\ request.sessionUserId # NoUser
     /\ RequestTargetExists
     /\ IsTeamMember(request.sessionUserId)
     /\ request.teamLookupOk) =>
        response.status \notin {401, 403}

(***************************************************************************)
(* C7                                                                      *)
(***************************************************************************)
\* C7 as stated: on the token routes a file is served (200 or 304) only if
\* the token is the token of some recipient of the envelope owning the item.
C7_AsStated ==
    (request.route \in TokenRoutes /\ FileServed) =>
        /\ RequestItemExists
        /\ request.token \in OwningEnvelope.recipients

\* C7 amended: on the token routes a file is served only if the token is
\* the token of some recipient of the envelope owning the item or, when it
\* starts with 'qr_', the qrToken of that envelope; the answer does not
\* depend on the session.
C7_TokenScope ==
    request.route \in TokenRoutes =>
        /\ FileServed =>
              /\ RequestItemExists
              /\ \/ request.token \in OwningEnvelope.recipients
                 \/ TokenIsQr /\ request.token = OwningEnvelope.qrToken
        /\ \A u \in Sessions :
              response =
                  IF request.route = "tokenView"
                  THEN getEnvelopeItemFileToken([request EXCEPT !.sessionUserId = u])
                  ELSE getEnvelopeItemFileTokenDownload([request EXCEPT !.sessionUserId = u])

C7_Witness ==
    /\ request.route = "tokenView"
    /\ request.token = TokenRecipientA
    /\ request.sessionUserId = 3
    /\ request.envelopeItemId = "item_1"
    /\ FileServed

(***************************************************************************)
(* C8                                                                      *)
(***************************************************************************)
\* C8: on the token routes a token starting with 'qr_' authorizes the
\* request exactly when it is the qrToken of the envelope owning the item
\* (recipient tokens are not consulted), and any other token exactly when
\* it is a recipient token of that envelope (the qrToken is not consulted).
C8_QrToken ==
    request.route \in TokenRoutes =>
        IF ~RequestItemExists THEN ~TokenAuthorized
        ELSE IF TokenIsQr
        THEN TokenAuthorized <=> request.token = OwningEnvelope.qrToken
        ELSE TokenAuthorized <=> request.token \in OwningEnvelope.recipients

C8_Witness ==
    /\ request.route = "tokenDownload"
    /\ request.token = TokenQrA
    /\ request.envelopeItemId = "item_1"
    /\ response.status = 200

(***************************************************************************)
(* C9                                                                      *)
(***************************************************************************)
\* C9: a token-route request with a token of a recipient of the envelope
\* owning the item, whose document data exists and can be read, is answered
\* 200 with the file, or 304 on a matching view revalidation.
C9_RecipientServed ==
    (/\ request.route \in TokenRoutes
     /\ RequestItemExists
     /\ request.token \in OwningEnvelope.recipients
     /\ RequestItem.documentData # NoDocumentData
     /\ RequestBytesReadable) =>
        \/ IsFullBodyResponse
        \/ /\ IsNotModifiedResponse
           /\ ~IsDownload
           /\ request.ifNoneMatch = CurrentETag

(***************************************************************************)
(* C10                                                                     *)
(***************************************************************************)
\* C10: the download route answers 401 to every request without a session,
\* whatever ?token= it carries; the view route accepts a valid presign
\* token in place of the session.
C10_DownloadSessionOnly ==
    /\ (request.route = "download" /\ request.sessionUserId = NoUser) =>
           response.status = 401
    /\ (/\ request.route = "view"
        /\ request.sessionUserId = NoUser
        /\ CredentialUser # NoUser) =>
           /\ response.status # 401
           /\ (/\ RequestTargetExists
               /\ IsTeamMember(CredentialUser)
               /\ request.teamLookupOk
               /\ RequestItem.documentData # NoDocumentData
               /\ RequestBytesReadable) => FileServed

C10_Witness ==
    /\ request.route = "download"
    /\ request.sessionUserId = NoUser
    /\ request.queryToken = <<"presign", 1>>
    /\ request.envelopeId = "envelope_a"
    /\ request.envelopeItemId = "item_1"
    /\ response.status = 401

(***************************************************************************)
(* C11                                                                     *)
(***************************************************************************)
\* No credential of the request resolves to an identity: no user on the
\* session routes; on the token routes a token that is neither a recipient
\* token nor the QR token of the envelope owning the item.
NoCredentialResolves ==
    IF request.route \in SessionRoutes
    THEN CredentialUser = NoUser
    ELSE /\ RequestItemExists
         /\ request.token \notin OwningEnvelope.recipients
         /\ request.token # OwningEnvelope.qrToken

\* The identity resolved and the target exists, but the identity is not a
\* member of the team owning the envelope.
LacksMembership ==
    /\ request.route \in SessionRoutes
    /\ CredentialUser # NoUser
    /\ RequestTargetExists
    /\ ~IsTeamMember(CredentialUser)

\* The envelope, the item or the item's document data is absent.
TargetAbsent ==
    IF request.route \in SessionRoutes
    THEN \/ ~RequestTargetExists
         \/ RequestItem.documentData = NoDocumentData
    ELSE \/ ~RequestItemExists
         \/ RequestItem.documentData = NoDocumentData

\* C11: every file request is answered 401 exactly when no credential
\* resolves to an identity, 403 exactly when an identity resolved but lacks
\* team membership, and 404 exactly when an identity resolved, is not
\* refused for membership, and the envelope, the item or the document data
\* is absent.
C11_OutcomesDistinguishable ==
    (request.route \in FileRoutes /\ request.teamLookupOk) =>
        /\ response.status = 401 <=> NoCredentialResolves
        /\ response.status = 403 <=> LacksMembership
        /\ response.status = 404 <=>
               (~NoCredentialResolves /\ ~LacksMembership /\ TargetAbsent)

(***************************************************************************)
(* C15                                                                     *)
(***************************************************************************)
\* The read of the object store rejected although the object is there.
StorageReadFailed ==
    /\ HandlerAnswered
    /\ response.status # 304
    /\ RequestItem.documentData.type = "S3_PATH"
    /\ RequestDataText \in DOMAIN objectStore
    /\ ~request.storageOk

\* C15: a retrieval whose read of the storage backend fails is answered
\* 500, not the 404 of an absent envelope, item or document data.
C15_ReadFailureIs500 ==
    StorageReadFailed => response.status = 500

(***************************************************************************)
(* C18                                                                     *)
(***************************************************************************)
\* The bytes a stored document data text stands for.
StoredBytes(type, text) ==
    IF type = "S3_PATH" THEN objectStore[text] ELSE base64Decode(text)

\* A 200 or 304 response serves the given text of the requested item: the
\* ETag is that of the text, and the body of a 200 is the bytes of the text.
Serves(text) ==
    IF response.status = 200
    THEN /\ response.headers.etag = etagOf(text)
         /\ response.body = StoredBytes(RequestItem.documentData.type, text)
    ELSE request.ifNoneMatch = etagOf(text)

\* C18: a file response (200 or 304) of a download of version 'signed'
\* serves the item's data and of version 'original' its initialData, body
\* and ETag alike; the view routes always serve the data; and where data
\* and initialData differ, the response carries neither the ETag nor (when
\* the bytes differ) the body of the version not requested.
C18_VersionsNeverConfused ==
    (request.route \in FileRoutes /\ FileServed) =>
        LET documentData == RequestItem.documentData
            served == IF IsDownload /\ request.version = "original"
                      THEN documentData.initialData
                      ELSE documentData.data
            other == IF IsDownload /\ request.version = "original"
                     THEN documentData.data
                     ELSE documentData.initialData
        IN  /\ (IsDownload /\ request.version = "signed") => Serves(documentData.data)
            /\ (IsDownload /\ request.version = "original") =>
                   Serves(documentData.initialData)
            /\ ~IsDownload => Serves(documentData.data)
            /\ (other # served /\ response.status = 200) =>
                   /\ response.headers.etag # etagOf(other)
                   /\ (/\ documentData.type = "S3_PATH" => other \in DOMAIN objectStore
                       /\ StoredBytes(documentData.type, other) #
                              StoredBytes(documentData.type, served)) =>
                          response.body # StoredBytes(documentData.type, other)

C18_Witness ==
    /\ request.route = "download"
    /\ request.version = "original"
    /\ request.envelopeItemId = "item_1"
    /\ response.status = 200
    /\ RequestItem.documentData.data # RequestItem.documentData.initialData
    /\ response.body = OriginalBytes1
    /\ response.body # SignedBytes1
    /\ response.headers.etag = etagOf(RequestItem.documentData.initialData)

(***************************************************************************)
(* Vocabulary of the upload properties                                     *)
(***************************************************************************)
UploadEntries == {"upload-pdf", "putPdfFileServerSide"}

StorageCalls == {"putFileServerSide", "uploadS3File", "createDocumentData"}

\* How many calls of the function the upload in progress has made.
CallCount(fn) == Cardinality({i \in DOMAIN upload.calls : upload.calls[i].fn = fn})

\* The upload in progress got past the checks of the route (of which
\* putPdfFileServerSide has none).
UploadValidated ==
    /\ upload.entry \in UploadEntries
    /\ upload.hasFile
    /\ upload.entry = "upload-pdf" => upload.file.size <= MAX_FILE_SIZE

(***************************************************************************)
(* C12                                                                     *)
(***************************************************************************)
\* C12: on both upload entry points an encrypted or unparsable PDF ends in
\* INVALID_DOCUMENT_FILE having made no call of putFileServerSide,
\* uploadS3File or createDocumentData.
C12_InvalidRejectedBeforeStorage ==
    (UploadValidated /\ upload.file.pdf \in {"encrypted", "malformed"}) =>
        /\ upload.outcome = "INVALID_DOCUMENT_FILE"
        /\ \A fn \in StorageCalls : CallCount(fn) = 0

C12_Witness ==
    /\ upload.entry = "putPdfFileServerSide"
    /\ upload.file.pdf = "encrypted"
    /\ upload.outcome = "INVALID_DOCUMENT_FILE"
    /\ upload.calls = <<call("PDFDocument.load", "", upload.file.bytes)>>

(***************************************************************************)
(* C13                                                                     *)
(***************************************************************************)
\* C13: POST /upload-pdf answers 400 to a request without a file and to a
\* file larger than APP_DOCUMENT_UPLOAD_SIZE_LIMIT MB, having made no call
\* (no normalization, no put, no record); a file of exactly the maximum
\* size gets past the check: it is normalized, and it is answered 200 when
\* it is a valid PDF and the backends succeed.
C13_MissingOrOversizedIs400 ==
    upload.entry = "upload-pdf" =>
        /\ ~upload.hasFile =>
               /\ response.status = 400
               /\ response.error = "No file provided"
               /\ upload.calls = <<>>
        /\ (upload.hasFile /\ upload.file.size > APP_DOCUMENT_UPLOAD_SIZE_LIMIT * 1024 * 1024) =>
               /\ response.status = 400
               /\ response.error = "File too large"
               /\ upload.calls = <<>>
        /\ (upload.hasFile /\ upload.file.size = APP_DOCUMENT_UPLOAD_SIZE_LIMIT * 1024 * 1024) =>
               /\ response.status # 400
               /\ CallCount("normalizePdf") = 1
               /\ (upload.file.pdf = "plain" /\ upload.putOk /\ upload.createOk) =>
                      response.status = 200

C13_Witness ==
    /\ upload.entry = "upload-pdf"
    /\ upload.hasFile
    /\ upload.file.size = APP_DOCUMENT_UPLOAD_SIZE_LIMIT * 1024 * 1024 + 1
    /\ upload.file.pdf = "plain"
    /\ response.status = 400
    /\ response.error = "File too large"
    /\ upload.calls = <<>>

(***************************************************************************)
(* C14                                                                     *)
(***************************************************************************)
\* C14: an upload through POST /upload-pdf that fails with
\* INVALID_DOCUMENT_FILE (malformed or encrypted PDF) is answered 400, not
\* the 500 'Upload failed' of a backend failure.
C14_InvalidDocumentIs400 ==
    (upload.entry = "upload-pdf" /\ upload.outcome = "INVALID_DOCUMENT_FILE") =>
        /\ response.status = 400
        /\ response.error # "Upload failed"

(***************************************************************************)
(* C20                                                                     *)
(***************************************************************************)
\* What a successful put of the bytes returned, read off the stores: under
\* the object store a key that is new and now holds the bytes, under the
\* inline backend the base64 text of the bytes.
PutReturned(bytes, type, data, storeBefore, storeAfter) ==
    IF transport = "s3"
    THEN /\ type = "S3_PATH"
         /\ data \notin DOMAIN storeBefore
         /\ data \in DOMAIN storeAfter
         /\ storeAfter[data] = bytes
    ELSE /\ type = "BYTES_64"
         /\ data = base64Encode(bytes)

\* One upload, from start to return.
UploadStep == upload = NoUpload /\ upload' # NoUpload

C20_UploadStep ==
    LET calls == upload'.calls
        creates == {i \in DOMAIN calls : calls[i].fn = "createDocumentData"}
        puts == {i \in DOMAIN calls : calls[i].fn = "putFileServerSide"}
    IN  UploadStep =>
            /\ Cardinality(creates) <= 1
            /\ \A i \in creates :
                   \E j \in puts :
                       /\ j < i
                       /\ PutReturned(calls[j].data, calls[i].type, calls[i].data,
                                      objectStore, objectStore')
            /\ upload'.outcome \in {"none", "INVALID_DOCUMENT_FILE", "STORAGE_ERROR"} =>
                   creates = {}
            /\ IF upload'.outcome = "ok"
               THEN \E i \in creates :
                        /\ documentDatas' =
                               Append(documentDatas,
                                      [type |-> calls[i].type, data |-> calls[i].data,
                                       initialData |-> calls[i].data])
                        /\ upload'.result = [type |-> calls[i].type, data |-> calls[i].data]
               ELSE documentDatas' = documentDatas

\* C20: in every upload createDocumentData is called at most once, only
\* after a put that succeeded and with the { type, data } the put returned;
\* an upload that fails in validation, normalization or put calls it never;
\* and a record comes into existence only in an upload that succeeds, the
\* one record of that call.
C20_RecordOnlyAfterPut == [][C20_UploadStep]_vars

C20_Witness ==
    /\ upload.entry = "putPdfFileServerSide"
    /\ upload.outcome = "ok"
    /\ transport = "s3"
    /\ CallCount("putFileServerSide") = 1
    /\ CallCount("createDocumentData") = 1
    /\ Len(documentDatas) = 1
    /\ documentDatas[1].type = "S3_PATH"
    /\ documentDatas[1].data \in DOMAIN objectStore
    /\ objectStore[documentDatas[1].data] = upload.file.bytes

(***************************************************************************)
(* C16                                                                     *)
(***************************************************************************)
\* C16: for every byte sequence B that putFileServerSide stored, reading
\* back the { type, data } it returned yields B under both backends; under
\* the inline backend it returned { BYTES_64, base64(B) }, and decoding
\* that text yields B.
C16_RoundTrip ==
    (upload.entry = "putFileServerSide" /\ upload.outcome = "ok") =>
        /\ getFileServerSide(upload.result.type, upload.result.data, TRUE) =
               upload.file.bytes
        /\ transport # "s3" =>
               /\ upload.result = [type |-> "BYTES_64",
                                   data |-> base64Encode(upload.file.bytes)]
               /\ base64Decode(upload.result.data) = upload.file.bytes
        /\ transport = "s3" => upload.result.type = "S3_PATH"

C16_Witness ==
    /\ upload.entry = "putFileServerSide"
    /\ upload.outcome = "ok"
    /\ transport = "database"
    /\ upload.file.bytes = <<255, 0>>
    /\ upload.result.data = <<47, 119, 65, 61>>
    /\ getFileServerSide("BYTES_64", upload.result.data, TRUE) = <<255, 0>>

(***************************************************************************)
(* C17                                                                     *)
(***************************************************************************)
Range(f) == {f[x] : x \in DOMAIN f}

\* The records there are: those the items started with and those uploads
\* created.
WrittenRecords(records) ==
    {S3DocumentData1, S3DocumentData2, InlineDocumentData3} \cup Range(records)

\* No step changes a record or an object that exists: records and objects
\* are only added, and an item changes its document data only by being
\* pointed at another record.
NothingOverwritten ==
    /\ \A i \in DOMAIN documentDatas :
           /\ i \in DOMAIN documentDatas'
           /\ documentDatas'[i] = documentDatas[i]
    /\ \A key \in DOMAIN objectStore :
           /\ key \in DOMAIN objectStore'
           /\ objectStore'[key] = objectStore[key]
    /\ \A id \in DOMAIN envelopeItems :
           envelopeItems'[id].documentData # envelopeItems[id].documentData =>
               envelopeItems'[id].documentData \in Range(documentDatas)

\* The answer of the retrieval is that of the one record its query
\* returned: type, ETag and body.
AnswerOfOneRecord ==
    LET documentData == retrieval.documentData
        text == IF retrieval.version = "signed"
                THEN documentData.data
                ELSE documentData.initialData
    IN  retrieval.phase = "answered" =>
            /\ documentData \in WrittenRecords(documentDatas)
            /\ response.status \in {200, 304, 404}
            /\ response.status = 200 =>
                   /\ response.headers.etag = etagOf(text)
                   /\ response.body = StoredBytes(documentData.type, text)
            /\ response.status = 304 => request.ifNoneMatch = etagOf(text)
            /\ response.status = 404 => retrieval.reads =
                   <<call("getFileServerSide", documentData.type, text)>>

C17_Step == NothingOverwritten /\ AnswerOfOneRecord'

\* C17: whatever uploads, repointings and retrievals interleave, no step
\* changes the type or data of a record that exists or the object under a
\* key that exists, and every answer of a retrieval takes its backend type,
\* its ETag and its body from the one record its query returned.
C17_RecordsImmutable == [][C17_Step]_vars

C17_Witness ==
    /\ retrieval.phase = "answered"
    /\ retrieval.documentData = S3DocumentData1
    /\ Len(documentDatas) > 0
    /\ envelopeItems["item_1"].documentData = documentDatas[1]
    /\ envelopeItems["item_1"].documentData # S3DocumentData1
    /\ response.status = 200
    /\ response.body = SignedBytes1
    /\ response.headers.etag = etagOf(KeySigned1)

(***************************************************************************)
(* C19                                                                     *)
(***************************************************************************)
\* The put of the upload in progress reached the object store and failed.
PutFailed ==
    /\ upload # NoUpload
    /\ transport = "s3"
    /\ CallCount("putFileServerSide") = 1
    /\ ~upload.putOk

\* The read of the answered retrieval failed.
ReadFailed ==
    /\ retrieval.phase = "answered"
    /\ retrieval.reads # <<>>
    /\ getFileServerSide(retrieval.reads[1].type, retrieval.reads[1].data,
                         request.storageOk) = FILE_ERROR

\* C19: an upload calls putFileServerSide, and under it uploadS3File, at
\* most once, and a retrieval calls getFileServerSide at most once; a put
\* that fails ends the upload in an error after that one call, without a
\* record (500 on POST /upload-pdf), and a read that fails ends the
\* retrieval in an error response after that one call.
C19_NoRetry ==
    /\ CallCount("putFileServerSide") <= 1
    /\ CallCount("uploadS3File") <= 1
    /\ Len(retrieval.reads) <= 1
    /\ PutFailed =>
           /\ upload.outcome = "STORAGE_ERROR"
           /\ CallCount("uploadS3File") = 1
           /\ CallCount("createDocumentData") = 0
           /\ upload.entry = "upload-pdf" => response.status = 500
    /\ ReadFailed =>
           /\ response.status \notin {200, 304}
           /\ response.kind = "json"
           /\ response.error # ""

C19_Witness ==
    /\ PutFailed
    /\ upload.entry = "putPdfFileServerSide"
    /\ upload.outcome = "STORAGE_ERROR"
    /\ ReadFailed
    /\ ~request.storageOk
    /\ Len(retrieval.reads) = 1
    /\ response.error = "File not found"

(***************************************************************************)
(* C22                                                                     *)
(***************************************************************************)
\* The title without one '.pdf' at its end.
TitleWithoutPdf(title) ==
    IF Len(title) >= 4 /\ SubSeq(title, Len(title) - 3, Len(title)) = <<".", "p", "d", "f">>
    THEN SubSeq(title, 1, Len(title) - 4)
    ELSE title

\* C22: every 200 response of a download carries Content-Disposition
\* attachment with the filename <title without one trailing '.pdf'>
\* followed by '_signed.pdf' for version signed and '.pdf' for version
\* original; a 200 response of a view carries no Content-Disposition.
C22_DownloadFilename ==
    (request.route \in FileRoutes /\ response.status = 200) =>
        IF IsDownload
        THEN response.headers.contentDisposition =
                 <<"attachment",
                   TitleWithoutPdf(RequestItem.title) \o
                       (IF RequestVersion = "signed"
                        THEN <<"_", "s", "i", "g", "n", "e", "d", ".", "p", "d", "f">>
                        ELSE <<".", "p", "d", "f">>)>>
        ELSE response.headers.contentDisposition = <<>>

C22_Witness ==
    /\ request.route = "tokenDownload"
    /\ request.version = "signed"
    /\ response.status = 200
    /\ RequestItem.title = TitleDoublePdf
    /\ response.headers.contentDisposition =
           <<"attachment",
             <<"c", ".", "p", "d", "f", "_", "s", "i", "g", "n", "e", "d", ".", "p", "d", "f">>>>

(***************************************************************************)
(* C24                                                                     *)
(***************************************************************************)
\* The request carries a ?token= that resolves to a user.
ValidPresignToken ==
    /\ Len(request.queryToken) = 2
    /\ request.queryToken[1] = "presign"

\* C24: on the view route with a valid presign ?token=, for an existing
\* envelope and item, the team membership checked is that of the token's
\* user whatever the session: a token of a non-member is answered 403 even
\* with the session of a member, and a token of a member is served the file
\* even with the session of a non-member.
C24_TokenIdentityChecked ==
    (/\ request.route = "view"
     /\ ValidPresignToken
     /\ RequestTargetExists
     /\ request.teamLookupOk) =>
        /\ ~IsTeamMember(request.queryToken[2]) => response.status = 403
        /\ (/\ IsTeamMember(request.queryToken[2])
            /\ RequestItem.documentData # NoDocumentData
            /\ RequestBytesReadable) => FileServed

C24_Witness ==
    /\ request.route = "view"
    /\ request.envelopeId = "envelope_a"
    /\ request.envelopeItemId = "item_1"
    /\ request.sessionUserId = 1
    /\ IsTeamMember(request.sessionUserId)
    /\ request.queryToken = <<"presign", 2>>
    /\ ~IsTeamMember(2)
    /\ request.teamLookupOk
    /\ response.status = 403

(***************************************************************************)
(* C25                                                                     *)
(***************************************************************************)
\* C25: a view whose If-None-Match equals the ETag of the record its query
\* returned is answered 304 with no body and no header set, without a call
\* of getFileServerSide, whether or not the object could have been read.
C25_NotModifiedBeforeRead ==
    (/\ retrieval.phase = "answered"
     /\ ~retrieval.isDownload
     /\ request.ifNoneMatch = etagOf(retrieval.documentData.data)) =>
        /\ IsNotModifiedResponse
        /\ response.headers = NoHeaders
        /\ retrieval.reads = <<>>

C25_Witness ==
    /\ retrieval.phase = "answered"
    /\ request.route = "view"
    /\ request.ifNoneMatch = etagOf(KeySigned1)
    /\ retrieval.documentData = S3DocumentData1
    /\ ~request.storageOk
    /\ getFileServerSide("S3_PATH", KeySigned1, request.storageOk) = FILE_ERROR
    /\ response.status = 304
    /\ retrieval.reads = <<>>

(***************************************************************************)
(* C26                                                                     *)
(***************************************************************************)
\* C26: on the view and download routes a request without a resolved user
\* gets one and the same response, 401 'Unauthorized', whether or not the
\* envelope and the item exist; on the token routes a token that is neither
\* a recipient token nor the QR token of the envelope owning the item gets
\* the very response of a missing item, 404 'Envelope item not found'.
C26_NoExistenceDisclosure ==
    /\ (request.route \in SessionRoutes /\ CredentialUser = NoUser) =>
           response = json("Unauthorized", 401)
    /\ (/\ request.route \in TokenRoutes
        /\ \/ ~RequestItemExists
           \/ /\ request.token \notin OwningEnvelope.recipients
              /\ request.token # OwningEnvelope.qrToken) =>
           response = json("Envelope item not found", 404)

C26_Witness ==
    /\ request.route = "view"
    /\ request.sessionUserId = NoUser
    /\ request.queryToken = <<>>
    /\ request.envelopeId = "envelope_x"
    /\ ~RequestTargetExists
    /\ response = json("Unauthorized", 401)

(***************************************************************************)
(* C27                                                                     *)
(***************************************************************************)
\* C27: on the view and download routes, for a resolved user and an
\* existing envelope and item, a team lookup that brings back no team (the
\* user is no member, or the lookup fails for another reason) is answered
\* 403 whether or not the item has document data; when the envelope or the
\* item does not exist the answer is 404, whatever the team lookup would
\* have brought back.
C27_TeamLookupFailureIs403 ==
    (request.route \in SessionRoutes /\ CredentialUser # NoUser) =>
        /\ (/\ RequestTargetExists
            /\ \/ ~IsTeamMember(CredentialUser)
               \/ ~request.teamLookupOk) =>
               response = accessDenied
        /\ ~RequestTargetExists => response.status = 404

C27_Witness ==
    /\ request.route = "download"
    /\ request.sessionUserId = 2
    /\ request.envelopeId = "envelope_b"
    /\ request.envelopeItemId = "item_4"
    /\ RequestItem.documentData = NoDocumentData
    /\ IsTeamMember(2)
    /\ ~request.teamLookupOk
    /\ response.status = 403

(***************************************************************************)
(* C23                                                                     *)
(***************************************************************************)
\* The type every put returns under the transport configured.
ConfiguredType == IF transport = "s3" THEN "S3_PATH" ELSE "BYTES_64"

\* The descriptor is one of the configured backend: the key of an object
\* in the store, or a base64 text.
OfConfiguredBackend(type, data) ==
    /\ type = ConfiguredType
    /\ IF transport = "s3"
       THEN data \in DOMAIN objectStore
       ELSE base64Decode(data) # DECODE_ERROR

\* C23: the transport never changes, and the type of what a put returns
\* depends on it alone: with 's3' every put that succeeds returns
\* { S3_PATH, key }, with any other value, the unset one too, every put
\* returns { BYTES_64, base64 }; so all the records of a process have the
\* same type.
C23_BackendOfTransport ==
    /\ transport \in {"s3", "database", ""}
    /\ (upload # NoUpload /\ upload.outcome = "ok") =>
           OfConfiguredBackend(upload.result.type, upload.result.data)
    /\ \A i \in DOMAIN upload.calls :
           upload.calls[i].fn = "createDocumentData" =>
               OfConfiguredBackend(upload.calls[i].type, upload.calls[i].data)
    /\ \A i \in DOMAIN documentDatas :
           OfConfiguredBackend(documentDatas[i].type, documentDatas[i].data)
    /\ \A i, j \in DOMAIN documentDatas : documentDatas[i].type = documentDatas[j].type

C23_Witness ==
    /\ transport = ""
    /\ Len(documentDatas) = 2
    /\ documentDatas[1].type = "BYTES_64"
    /\ documentDatas[2].type = "BYTES_64"
    /\ documentDatas[1].data # documentDatas[2].data
    /\ upload.entry = "putPdfFileServerSide"
    /\ upload.result.data = base64Encode(upload.file.bytes)

(***************************************************************************)
(* C21                                                                     *)
(***************************************************************************)
\* C21: POST /presigned-post-url makes one call of getPresignPostUrl and
\* answers either with the key and the url that call returned, both, or,
\* when the call fails, with the error UNKNOWN_ERROR, which carries no key,
\* no url and nothing of the error the object store ended with.
C21_PresignAllOrNothing ==
    presign # NoPresign =>
        /\ Len(presign.calls) = 1
        /\ IF presign.backend = "ok"
           THEN /\ presign.outcome = "ok"
                /\ response.status = 200
                /\ presign.key # <<>>
                /\ presign.url # <<>>
                /\ presign.key =
                       getPresignPostUrl(presign.fileName, presign.contentType, "ok").key
                /\ presign.url =
                       getPresignPostUrl(presign.fileName, presign.contentType, "ok").url
           ELSE /\ presign.outcome = "UNKNOWN_ERROR"
                /\ presign.key = <<>>
                /\ presign.url = <<>>
                /\ response.status \notin {200, 304}
                /\ response.error = "UNKNOWN_ERROR"
                /\ response.error # presign.backend
                /\ response.body = <<>>

C21_Witness ==
    /\ presign.backend = "credentials error"
    /\ presign.fileName = <<"a">>
    /\ presign.outcome = "UNKNOWN_ERROR"
    /\ presign.key = <<>>
    /\ presign.url = <<>>
    /\ response.error = "UNKNOWN_ERROR"

(***************************************************************************)
(* findEnvelopeAuditLogs and queryAuditLogs: the specification of the      *)
(* audit-log pages                                                         *)
(***************************************************************************)
MaxRows == 3

MaxPerPage == 2

MaxPage == 2

\* The tables of an envelope: its rows, each id once, in the order asked for.
AuditLogTables ==
    {t \in UNION {[1..n -> 1..MaxRows] : n \in 0..MaxRows} :
        \A i, j \in DOMAIN t : i # j => t[i] # t[j]}

\* findEnvelopeAuditLogs(options) on the rows of the envelope; an envelope
\* that is not found is NOT_FOUND and nothing is queried.
findEnvelopeAuditLogs(envelopeExists, rows, page, perPage, cursor, filterForRecentActivity) ==
    IF ~envelopeExists
    THEN [outcome |-> "NOT_FOUND", fetched |-> 0, result |-> NoResult]
    ELSE [outcome |-> "ok",
          fetched |-> Len(findMany(selectRows(rows, filterForRecentActivity), (max(page, 1) - 1) * perPage, perPage + 1, cursor)),
          result |-> queryAuditLogs(rows, page, perPage, cursor, filterForRecentActivity)]

InitAuditLogs ==
    /\ InitUpload

\* A first call, with any page, page size, cursor and filter.
FindEnvelopeAuditLogs ==
    /\ auditQuery = NoAuditQuery
    /\ \E rows \in AuditLogTables, envelopeExists \in BOOLEAN, page \in 0..MaxPage, perPage \in 1..MaxPerPage, cursor \in 0..MaxRows, filterForRecentActivity \in BOOLEAN :
         LET found == findEnvelopeAuditLogs(envelopeExists, rows, page, perPage, cursor, filterForRecentActivity)
         IN  /\ auditLogs' = rows
             /\ auditQuery' = [page |-> page, perPage |-> perPage, cursor |-> cursor,
                               filterForRecentActivity |-> filterForRecentActivity,
                               outcome |-> found.outcome, fetched |-> found.fetched,
                               result |-> found.result,
                               followed |-> FALSE, previous |-> NoResult]
    /\ UNCHANGED <<envelopes, envelopeItems, objectStore, request, response, transport, documentDatas, upload, retrieval, presign>>

\* The caller follows nextCursor: the same call again with cursor =
\* nextCursor of the answer it holds, and a page of its choice.
FollowNextCursor ==
    /\ auditQuery # NoAuditQuery
    /\ auditQuery.outcome = "ok"
    /\ auditQuery.result.nextCursor # NoCursor
    /\ \E page \in 0..MaxPage :
         LET cursor == auditQuery.result.nextCursor
             found == findEnvelopeAuditLogs(TRUE, auditLogs, page, auditQuery.perPage, cursor, auditQuery.filterForRecentActivity)
         IN  auditQuery' = [page |-> page, perPage |-> auditQuery.perPage, cursor |-> cursor,
                            filterForRecentActivity |-> auditQuery.filterForRecentActivity,
                            outcome |-> found.outcome, fetched |-> found.fetched,
                            result |-> found.result,
                            followed |-> TRUE, previous |-> auditQuery.result]
    /\ UNCHANGED <<envelopes, envelopeItems, objectStore, request, response, transport, documentDatas, upload, retrieval, presign, auditLogs>>

\* The caller is done with the pages.
FinishAuditQuery ==
    /\ auditQuery # NoAuditQuery
    /\ auditLogs' = <<>>
    /\ auditQuery' = NoAuditQuery
    /\ UNCHANGED <<envelopes, envelopeItems, objectStore, request, response, transport, documentDatas, upload, retrieval, presign>>

NextAuditLogs ==
    \/ FindEnvelopeAuditLogs
    \/ FollowNextCursor
    \/ FinishAuditQuery

AuditLogSpec == InitAuditLogs /\ [][NextAuditLogs]_vars

(***************************************************************************)
(* C28                                                                     *)
(***************************************************************************)
\* The rows the where clause of the call in progress selects, in order.
QueriedRows == selectRows(auditLogs, auditQuery.filterForRecentActivity)

AuditQueryAnswered == auditQuery # NoAuditQuery /\ auditQuery.outcome = "ok"

\* rows is a run of consecutive rows of all, in the same order.
ConsecutiveRows(rows, all) ==
    \E i \in 1..(Len(all) + 1) :
        /\ i + Len(rows) - 1 <= Len(all)
        /\ \A k \in DOMAIN rows : rows[k] = all[i + k - 1]

\* The facts about one answer: the page size, the page number, the number
\* of pages and the cursor.
PageFacts ==
    LET r == auditQuery.result
    IN  /\ Len(r.data) <= auditQuery.perPage
        /\ r.currentPage = (IF auditQuery.page >= 1 THEN auditQuery.page ELSE 1)
        /\ r.totalPages * auditQuery.perPage >= r.count
        /\ (r.totalPages - 1) * auditQuery.perPage < r.count
        /\ r.count = Len(QueriedRows)
        /\ (r.nextCursor # NoCursor) <=> (auditQuery.fetched > auditQuery.perPage)
        /\ r.nextCursor # NoCursor => ConsecutiveRows(r.data \o <<r.nextCursor>>, QueriedRows)

\* The rows of the answer before and the rows of this answer are one run of
\* consecutive rows: none skipped, none repeated.
FollowedWithoutGap ==
    /\ auditQuery.result.data # <<>>
    /\ ConsecutiveRows(auditQuery.previous.data \o auditQuery.result.data, QueriedRows)

\* C28 as stated: every answer of queryAuditLogs has at most perPage rows,
\* currentPage = max(page, 1), totalPages = ceil(count / perPage) and a
\* nextCursor exactly when more than perPage rows were fetched, the id of the
\* first row not returned; and every call that follows nextCursor, whatever
\* its page, continues exactly after the rows of the answer before.
C28_FollowingNeverSkips ==
    AuditQueryAnswered =>
        /\ PageFacts
        /\ auditQuery.followed => FollowedWithoutGap

\* C28 amended: the facts about one answer hold for every page; a call that
\* follows nextCursor continues exactly after the rows of the answer before
\* when its page is at most 1; when its page is more, it passes over the
\* cursor row, the first row not returned before, and the rows it returns
\* do not continue the rows of the answer before.
C28_FollowingWithoutOffset ==
    AuditQueryAnswered =>
        /\ PageFacts
        /\ auditQuery.followed /\ auditQuery.page <= 1 => FollowedWithoutGap
        /\ auditQuery.followed /\ auditQuery.page > 1 =>
               /\ \A k \in DOMAIN auditQuery.result.data : auditQuery.result.data[k] # auditQuery.cursor
               /\ auditQuery.result.data # <<>> =>
                      /\ ~ConsecutiveRows(auditQuery.previous.data \o auditQuery.result.data, QueriedRows)
                      /\ ConsecutiveRows(auditQuery.result.data, QueriedRows)

\* A call followed nextCursor with page 1 and was answered with a next page
\* that has a next page of its own.
C28_Witness ==
    /\ AuditQueryAnswered
    /\ auditQuery.followed
    /\ auditQuery.page = 1
    /\ auditQuery.result.nextCursor # NoCursor

====
